---- MODULE Spec2Model ----
(***************************************************************************)
(* News-driven stock market intelligence: the Analysis_Agent               *)
(* (src/agents/analysis_agent.py) joins enriched news with market quotes,  *)
(* scores every (article, ticker) match, aggregates per ticker and ranks.  *)
(* The News_Agent, the Market_Agent, the pipeline that calls the four      *)
(* agents in turn and the scheduler that repeats it are modelled after     *)
(* the engine, each with its own specification.                            *)
(*                                                                         *)
(* Numbers.  The program computes with Python floats that it rounds to 4   *)
(* decimals.  The model is fixed-point and exact:                          *)
(*   - sentiment numbers, movement scores, volume scores, impact scores    *)
(*     are integers in units of 0.0001 (1.0 = 10000);                      *)
(*   - the weights are integers in units of 0.01 (0.45 = 45);              *)
(*   - an unrounded quotient is kept as a pair (numerator, denominator).   *)
(* round(x, 4) is round-half-to-even on the exact value; the binary        *)
(* representation error of a float is not modelled.                        *)
(***************************************************************************)
EXTENDS Integers, Sequences, FiniteSets, TLC

VARIABLES
    IMPACT_WEIGHTS,    \* core/config.py: the configured scoring weights
    news_processed,    \* the file data/news_processed.json
    market_file,       \* the file data/market_data.json
    analysis_output,   \* the file data/analysis_output.json
    pc,                \* position of AnalysisAgent: construction and run()
    news_list,         \* run(): the loaded article list
    market_data,       \* run(): the loaded ticker -> quote mapping
    idx,               \* run(): number of articles the join loop has consumed
    rows,              \* run(): the MatchRows appended so far
    probe,             \* a single call of a scoring function: arguments, result
    news_raw,          \* the file data/news_raw.json
    sched,             \* scheduler.main: position in the while loop
    step,              \* run_pipeline: index in PIPELINE_STEPS of the current step
    in_step,           \* run_pipeline: inside the call fn() of the current step
    results,           \* run_pipeline: the steps called so far and what they returned
    returned,          \* run_pipeline: how the invocation ended, "none" while running
    NEWSAPI_KEY,       \* core/config.py: TRUE when a NewsAPI key is configured
    newsapi_resp,      \* what the NewsAPI request of this run gives
    rss_feeds,         \* what parsing each of RSS_FEEDS gives in this run
    n_pc,              \* position of NewsAgent.run
    articles,          \* NewsAgent: the articles collected so far
    seen,              \* _fetch_rss: the lower-cased titles met so far
    feed_i,            \* _fetch_rss: index of the current feed
    entry_i,           \* _fetch_rss: index of the current entry, 0 before the parse
    rss_fetched,       \* the feeds requested so far, in order
    ALPHA_VANTAGE_API_KEY, \* core/config.py: TRUE when a key is configured
    av_resp,           \* what Alpha Vantage answers for each symbol in this run
    yf_resp,           \* whether yfinance has an entry for each symbol
    m_pc,              \* position of MarketAgent: construction and run()
    _av_blocked,       \* MarketAgent._av_blocked
    news_tickers,      \* MarketAgent.run: the tickers the news mention
    symbols,           \* MarketAgent.run: the symbols to fetch, in order
    sym_i,             \* MarketAgent.run: index of the next symbol
    m_data,            \* MarketAgent.run: the market_data dict being built
    av_calls,          \* the symbols requested from Alpha Vantage, in order
    yf_calls           \* the symbols requested from yfinance, in order

pipeVars == <<news_raw, sched, step, in_step, results, returned>>

schedVars == <<sched, step, in_step, results, returned>>

newsVars == <<NEWSAPI_KEY, newsapi_resp, rss_feeds, n_pc, articles, seen,
              feed_i, entry_i, rss_fetched>>

marketVars == <<ALPHA_VANTAGE_API_KEY, av_resp, yf_resp, m_pc, _av_blocked,
                news_tickers, symbols, sym_i, m_data, av_calls, yf_calls>>

agentVars == <<newsVars, marketVars>>

otherVars == <<pipeVars, agentVars>>

vars == <<IMPACT_WEIGHTS, news_processed, market_file, analysis_output, pc,
          news_list, market_data, idx, rows, probe, otherVars>>

runVars == <<news_processed, market_file, analysis_output, pc,
             news_list, market_data, idx, rows>>

----------------------------------------------------------------------------
(* Bounds of the model *)

\* movement scores probed: -MaxMove .. MaxMove (units of 0.0001)
MaxMove == 1000
\* scores handed to the trend classifier when it is probed alone
MaxScore == 3000
\* articles in news_processed.json
MaxArticles == 3
\* quoted tickers in the one-article, many-tickers inputs
MaxTickers == 11
\* open and close prices handed to the movement scorer when it is probed alone
MaxPrice == 60
\* volumes probed: up to VolSpan away from 0 and from each threshold
VolSpan == 2
MaxDen == 3
MaxRaw == 1
MaxEntries == 2

----------------------------------------------------------------------------
(* Program constants *)

\* one unit of the fixed-point scale: 1.0
ONE == 10000

\* head(10)
TOP_N == 10

\* Python's order on the ticker strings (the order groupby("symbol") uses)
SymbolOrder ==
    << "AAPL", "ABBV", "ACN", "AMD", "AMZN", "AVGO", "BAC", "COST", "CRM",
       "CVX", "DJI", "GOOGL", "HD", "JNJ", "JPM", "KO", "LLY", "META", "MRK",
       "MSFT", "NFLX", "NVDA", "ORCL", "PEP", "PG", "QQQ", "SPY", "TMO",
       "TSLA", "UNH", "V", "WMT", "XOM" >>

SymIdx(sym) == CHOOSE i \in 1..Len(SymbolOrder) : SymbolOrder[i] = sym

\* the symbols with a price feed, in the same order
US_MARKET_SYMBOLS ==
    << "AAPL", "ABBV", "ACN", "AMD", "AMZN", "AVGO", "BAC", "COST", "CRM",
       "CVX", "GOOGL", "HD", "JNJ", "JPM", "KO", "LLY", "META", "MRK",
       "MSFT", "NFLX", "NVDA", "ORCL", "PEP", "PG", "TMO",
       "TSLA", "UNH", "V", "WMT", "XOM" >>

\* core/config.py: US_MARKET_SYMBOLS in the order of the list
MarketSymbolList ==
    << "AAPL", "MSFT", "GOOGL", "AMZN", "NVDA",
       "META", "TSLA", "JPM", "V", "UNH",
       "XOM", "WMT", "JNJ", "BAC", "HD",
       "PG", "CVX", "LLY", "MRK", "ABBV",
       "COST", "AVGO", "PEP", "KO", "ORCL",
       "TMO", "ACN", "CRM", "NFLX", "AMD" >>

SENTIMENT_SCORE_MAP ==
    [l \in {"1 star", "2 stars", "3 stars", "4 stars", "5 stars",
            "neutral", "positive", "negative"} |->
        CASE l = "1 star"   -> -10000
          [] l = "2 stars"  -> -5000
          [] l = "3 stars"  -> 0
          [] l = "4 stars"  -> 5000
          [] l = "5 stars"  -> 10000
          [] l = "neutral"  -> 0
          [] l = "positive" -> 5000
          [] l = "negative" -> -5000]

\* IMPACT_WEIGHTS as config.py sets it
CONFIGURED_WEIGHTS == [sentiment |-> 45, movement |-> 35, volume |-> 20]

----------------------------------------------------------------------------
(* Arithmetic *)

\* round-half-to-even of n/d, d > 0
RoundHalfEven(n, d) ==
    LET q == n \div d
        r == n % d
    IN  IF 2 * r > d \/ (2 * r = d /\ q % 2 = 1) THEN q + 1 ELSE q

\* round(n/d, 4) for a value n/d given in units of 0.0001
round4(n, d) == RoundHalfEven(n, d)

\* dict.get(key, default)
Get(rec, key, default) == IF key \in DOMAIN rec THEN rec[key] ELSE default

----------------------------------------------------------------------------
(* The scoring functions of AnalysisAgent *)

\* the labels the model hands to _sentiment_num
LABELS ==
    { "1 star", "2 stars", "3 stars", "4 stars", "5 stars", "neutral", "positive", "negative",
      " 5 Stars ", "NEGATIVE", "  Positive", "Neutral  ",
      "4 STARS", "\tnegative\n", "very positive", "5 star", "5  stars", "bullish", "" }

\* the characters of a label
Chars(label) ==
    CASE label = "1 star" -> <<"1", " ", "s", "t", "a", "r">>
      [] label = "2 stars" -> <<"2", " ", "s", "t", "a", "r", "s">>
      [] label = "3 stars" -> <<"3", " ", "s", "t", "a", "r", "s">>
      [] label = "4 stars" -> <<"4", " ", "s", "t", "a", "r", "s">>
      [] label = "5 stars" -> <<"5", " ", "s", "t", "a", "r", "s">>
      [] label = "neutral" -> <<"n", "e", "u", "t", "r", "a", "l">>
      [] label = "positive" -> <<"p", "o", "s", "i", "t", "i", "v", "e">>
      [] label = "negative" -> <<"n", "e", "g", "a", "t", "i", "v", "e">>
      [] label = " 5 Stars " -> <<" ", "5", " ", "S", "t", "a", "r", "s", " ">>
      [] label = "NEGATIVE" -> <<"N", "E", "G", "A", "T", "I", "V", "E">>
      [] label = "  Positive" -> <<" ", " ", "P", "o", "s", "i", "t", "i", "v", "e">>
      [] label = "Neutral  " -> <<"N", "e", "u", "t", "r", "a", "l", " ", " ">>
      [] label = "4 STARS" -> <<"4", " ", "S", "T", "A", "R", "S">>
      [] label = "\tnegative\n" -> <<"\t", "n", "e", "g", "a", "t", "i", "v", "e", "\n">>
      [] label = "very positive" -> <<"v", "e", "r", "y", " ", "p", "o", "s", "i", "t", "i", "v", "e">>
      [] label = "5 star" -> <<"5", " ", "s", "t", "a", "r">>
      [] label = "5  stars" -> <<"5", " ", " ", "s", "t", "a", "r", "s">>
      [] label = "bullish" -> <<"b", "u", "l", "l", "i", "s", "h">>
      [] label = "" -> <<>>

WHITESPACE == {" ", "\t", "\n"}

\* str.strip(): leading and trailing whitespace removed
RECURSIVE lstrip(_)
lstrip(s) ==
    IF s # <<>> /\ Head(s) \in WHITESPACE THEN lstrip(Tail(s)) ELSE s

RECURSIVE rstrip(_)
rstrip(s) ==
    IF s # <<>> /\ s[Len(s)] \in WHITESPACE
    THEN rstrip(SubSeq(s, 1, Len(s) - 1)) ELSE s

\* variant: the label taken as it comes
strip_none(s) == s

strip(s) == rstrip(lstrip(s))

\* str.lower() on one character
LowerChar(c) ==
    CASE c = "A" -> "a"
      [] c = "C" -> "c"
      [] c = "D" -> "d"
      [] c = "E" -> "e"
      [] c = "F" -> "f"
      [] c = "G" -> "g"
      [] c = "I" -> "i"
      [] c = "L" -> "l"
      [] c = "N" -> "n"
      [] c = "O" -> "o"
      [] c = "P" -> "p"
      [] c = "R" -> "r"
      [] c = "S" -> "s"
      [] c = "T" -> "t"
      [] c = "V" -> "v"
      [] OTHER -> c

lower(s) == [i \in DOMAIN s |-> LowerChar(s[i])]

\* label.strip().lower(), as characters
StripLower(label) == lower(strip(Chars(label)))

\* SENTIMENT_SCORE_MAP.get(label.strip().lower(), 0.0)
_sentiment_num(label) ==
    LET key == StripLower(label)
        hit == {k \in DOMAIN SENTIMENT_SCORE_MAP : Chars(k) = key}
    IN  IF hit # {} THEN SENTIMENT_SCORE_MAP[CHOOSE k \in hit : TRUE] ELSE 0

\* variant: the quotient truncated instead of rounded
_movement_score_truncating(entry) ==
    LET o == Get(entry, "open", 0)
        c == Get(entry, "close", 0)
    IN  IF o # 0
        THEN IF o > 0 THEN ((c - o) * ONE) \div o
                      ELSE ((o - c) * ONE) \div (-o)
        ELSE 0

\* variant: the change taken relative to the close
_movement_score_by_close(entry) ==
    LET o == Get(entry, "open", 0)
        c == Get(entry, "close", 0)
    IN  IF o # 0 /\ c # 0
        THEN IF c > 0 THEN round4((c - o) * ONE, c)
                      ELSE round4((o - c) * ONE, -c)
        ELSE 0

\* variant: a missing close taken to be the open
_movement_score_missing_close(entry) ==
    LET o == Get(entry, "open", 0)
        c == Get(entry, "close", o)
    IN  IF o # 0
        THEN IF o > 0 THEN round4((c - o) * ONE, o)
                      ELSE round4((o - c) * ONE, -o)
        ELSE 0

_movement_score(entry) ==
    LET o == Get(entry, "open", 0)
        c == Get(entry, "close", 0)
    IN  IF o # 0
        THEN IF o > 0 THEN round4((c - o) * ONE, o)
                      ELSE round4((o - c) * ONE, -o)
        ELSE 0

\* variant: the thresholds inclusive
_volume_score_inclusive(volume) ==
    IF volume >= 50000000 THEN 10000
    ELSE IF volume >= 10000000 THEN 5000
    ELSE IF volume >= 1000000 THEN 2000
    ELSE 0

_volume_score(volume) ==
    IF volume > 50000000 THEN 10000
    ELSE IF volume > 10000000 THEN 5000
    ELSE IF volume > 1000000 THEN 2000
    ELSE 0

\* variant: the volume term added unsigned
_impact_score_unsigned(sentiment_num, movement, volume_score) ==
    LET raw == IMPACT_WEIGHTS.sentiment * sentiment_num
             + IMPACT_WEIGHTS.movement  * movement
             + IMPACT_WEIGHTS.volume    * volume_score
    IN  round4(raw, 100)

\* variant: the volume term signed by movement
_impact_score_movement_sign(sentiment_num, movement, volume_score) ==
    LET sign == IF movement >= 0 THEN 1 ELSE -1
        raw  == IMPACT_WEIGHTS.sentiment * sentiment_num
              + IMPACT_WEIGHTS.movement  * movement
              + IMPACT_WEIGHTS.volume    * volume_score * sign
    IN  round4(raw, 100)

\* variant: neutral sentiment counted as negative
_impact_score_strict_sign(sentiment_num, movement, volume_score) ==
    LET sign == IF sentiment_num > 0 THEN 1 ELSE -1
        raw  == IMPACT_WEIGHTS.sentiment * sentiment_num
              + IMPACT_WEIGHTS.movement  * movement
              + IMPACT_WEIGHTS.volume    * volume_score * sign
    IN  round4(raw, 100)

_impact_score(sentiment_num, movement, volume_score) ==
    LET sign == IF sentiment_num >= 0 THEN 1 ELSE -1
        raw  == IMPACT_WEIGHTS.sentiment * sentiment_num
              + IMPACT_WEIGHTS.movement  * movement
              + IMPACT_WEIGHTS.volume    * volume_score * sign
    IN  round4(raw, 100)

\* variant: the upper cut points inclusive
_trend_inclusive(n, d) ==
    IF n >= 2500 * d THEN "Strong Bullish"
    ELSE IF n >= 500 * d THEN "Moderate Bullish"
    ELSE IF n >= -500 * d THEN "Neutral"
    ELSE IF n >= -2500 * d THEN "Moderate Bearish"
    ELSE "Strong Bearish"

\* the score is the exact quotient n/d (d > 0) in units of 0.0001
_trend(n, d) ==
    IF n > 2500 * d THEN "Strong Bullish"
    ELSE IF n > 500 * d THEN "Moderate Bullish"
    ELSE IF n >= -500 * d THEN "Neutral"
    ELSE IF n >= -2500 * d THEN "Moderate Bearish"
    ELSE "Strong Bearish"

\* variant: the Neutral band open at -0.05
trend_strength_open(n, d) ==
    IF n > 2500 * d THEN "Strong Bullish"
    ELSE IF 500 * d < n /\ n <= 2500 * d THEN "Moderate Bullish"
    ELSE IF -500 * d < n /\ n <= 500 * d THEN "Neutral"
    ELSE IF -2500 * d <= n /\ n < -500 * d THEN "Moderate Bearish"
    ELSE "Strong Bearish"

\* ImpactAgent.trend_strength on the exact quotient n/d
trend_strength(n, d) ==
    IF n > 2500 * d THEN "Strong Bullish"
    ELSE IF 500 * d < n /\ n <= 2500 * d THEN "Moderate Bullish"
    ELSE IF -500 * d <= n /\ n <= 500 * d THEN "Neutral"
    ELSE IF -2500 * d <= n /\ n < -500 * d THEN "Moderate Bearish"
    ELSE "Strong Bearish"

----------------------------------------------------------------------------
(* Files *)

NoFile == [ok |-> FALSE, data |-> <<>>]
File(content) == [ok |-> TRUE, data |-> content]

\* _load: the parsed content, or the empty default when the read fails
_load(file) == IF file.ok THEN file.data ELSE <<>>

NoOutput == [written |-> FALSE, generated_at |-> 0, top_10_bullish |-> <<>>, top_10_bearish |-> <<>>,
             aggregated |-> <<>>, full_list |-> <<>>]

----------------------------------------------------------------------------
(* Specification SpecScore: one call of a scoring function on arguments    *)
(* drawn from bounded sets.                                                *)

SentimentNums == {-10000, -5000, 0, 5000, 10000}
VolumeScores  == {0, 2000, 5000, 10000}

NoProbe == [kind |-> "none", label |-> "", s |-> 0, m |-> 0, v |-> 0,
            done |-> FALSE, impact |-> 0, impact0 |-> 0, trend |-> "", strength |-> ""]

ImpactProbes ==
    { [kind |-> "impact", label |-> "", s |-> s, m |-> m, v |-> v,
       done |-> FALSE, impact |-> 0, impact0 |-> 0, trend |-> "", strength |-> ""] :
         s \in SentimentNums, m \in -MaxMove..MaxMove, v \in VolumeScores }

TrendProbes ==
    { [kind |-> "trend", label |-> "", s |-> x, m |-> 0, v |-> 0,
       done |-> FALSE, impact |-> 0, impact0 |-> 0, trend |-> "", strength |-> ""] :
         x \in -MaxScore..MaxScore }

\* a score n/d given to both classifiers
StrengthProbes ==
    { [kind |-> "strength", label |-> "", s |-> n, m |-> d, v |-> 0,
       done |-> FALSE, impact |-> 0, impact0 |-> 0, trend |-> "",
       strength |-> ""] :
         n \in -MaxScore..MaxScore, d \in 1..MaxDen }

\* _sentiment_num(label)
SentimentProbes ==
    { [kind |-> "sentiment", label |-> l, s |-> 0, m |-> 0, v |-> 0,
       done |-> FALSE, impact |-> 0, impact0 |-> 0, trend |-> "", strength |-> ""] :
         l \in LABELS }

\* _movement_score({open, close})
MovementProbes ==
    { [kind |-> "movement", label |-> "", s |-> o, m |-> c, v |-> 0,
       done |-> FALSE, impact |-> 0, impact0 |-> 0, trend |-> "", strength |-> ""] :
         o \in 0..MaxPrice, c \in 0..MaxPrice }

ProbeVolumes ==
    (0..VolSpan)
    \cup UNION { (th - VolSpan)..(th + VolSpan) :
                   th \in {1000000, 10000000, 50000000} }
    \cup {60000000}

\* _volume_score on two volumes
VolumeProbes ==
    { [kind |-> "volume", label |-> "", s |-> v1, m |-> v2, v |-> 0,
       done |-> FALSE, impact |-> 0, impact0 |-> 0, trend |-> "", strength |-> ""] :
         v1 \in ProbeVolumes, v2 \in ProbeVolumes }

\* the scheduler not started, no raw news fetched
InitPipe ==
    /\ news_raw = NoFile
    /\ sched = "loop"
    /\ step = 1
    /\ in_step = FALSE
    /\ results = <<>>
    /\ returned = "none"

\* no NewsAgent run started, nothing to fetch
InitNewsIdle ==
    /\ NEWSAPI_KEY = FALSE
    /\ newsapi_resp = [kind |-> "fail", items |-> <<>>]
    /\ rss_feeds = <<>>
    /\ n_pc = "idle"
    /\ articles = <<>>
    /\ seen = {}
    /\ feed_i = 0
    /\ entry_i = 0
    /\ rss_fetched = <<>>

\* no MarketAgent constructed
InitMarketIdle ==
    /\ ALPHA_VANTAGE_API_KEY = FALSE
    /\ av_resp = <<>>
    /\ yf_resp = <<>>
    /\ m_pc = "idle"
    /\ _av_blocked = FALSE
    /\ news_tickers = {}
    /\ symbols = <<>>
    /\ sym_i = 0
    /\ m_data = <<>>
    /\ av_calls = <<>>
    /\ yf_calls = <<>>

InitOther == InitPipe /\ InitNewsIdle /\ InitMarketIdle

InitRunIdle ==
    /\ news_processed = NoFile
    /\ market_file = NoFile
    /\ analysis_output = NoOutput
    /\ pc = "idle"
    /\ news_list = <<>>
    /\ market_data = <<>>
    /\ idx = 0
    /\ rows = <<>>

InitIdle == InitRunIdle /\ InitOther

InitScore ==
    /\ IMPACT_WEIGHTS = CONFIGURED_WEIGHTS
    /\ InitIdle
    /\ probe \in ImpactProbes \cup TrendProbes \cup SentimentProbes
                 \cup MovementProbes \cup VolumeProbes \cup StrengthProbes

\* _impact_score(s, m, v), and the same call with volume_score = 0
CallImpactScore ==
    /\ probe.kind = "impact" /\ ~probe.done
    /\ probe' = [probe EXCEPT !.done = TRUE,
                    !.impact  = _impact_score(probe.s, probe.m, probe.v),
                    !.impact0 = _impact_score(probe.s, probe.m, 0)]
    /\ UNCHANGED otherVars
    /\ UNCHANGED <<IMPACT_WEIGHTS, runVars>>

\* _trend(score)
CallTrend ==
    /\ probe.kind = "trend" /\ ~probe.done
    /\ probe' = [probe EXCEPT !.done = TRUE, !.trend = _trend(probe.s, 1)]
    /\ UNCHANGED otherVars
    /\ UNCHANGED <<IMPACT_WEIGHTS, runVars>>

\* _trend(score) and trend_strength(score) on the same score
CallTrendStrength ==
    /\ probe.kind = "strength" /\ ~probe.done
    /\ probe' = [probe EXCEPT !.done = TRUE,
                              !.trend = _trend(probe.s, probe.m),
                              !.strength = trend_strength(probe.s, probe.m)]
    /\ UNCHANGED otherVars
    /\ UNCHANGED <<IMPACT_WEIGHTS, runVars>>

\* _sentiment_num(label)
CallSentimentNum ==
    /\ probe.kind = "sentiment" /\ ~probe.done
    /\ probe' = [probe EXCEPT !.done = TRUE,
                    !.impact = _sentiment_num(probe.label)]
    /\ UNCHANGED otherVars
    /\ UNCHANGED <<IMPACT_WEIGHTS, runVars>>

\* _movement_score(entry)
CallMovementScore ==
    /\ probe.kind = "movement" /\ ~probe.done
    /\ probe' = [probe EXCEPT !.done = TRUE,
                    !.impact = _movement_score([open |-> probe.s,
                                                close |-> probe.m])]
    /\ UNCHANGED otherVars
    /\ UNCHANGED <<IMPACT_WEIGHTS, runVars>>

\* _volume_score(volume) for two volumes
CallVolumeScore ==
    /\ probe.kind = "volume" /\ ~probe.done
    /\ probe' = [probe EXCEPT !.done = TRUE,
                    !.impact  = _volume_score(probe.s),
                    !.impact0 = _volume_score(probe.m)]
    /\ UNCHANGED otherVars
    /\ UNCHANGED <<IMPACT_WEIGHTS, runVars>>

NextScore ==
    \/ CallImpactScore \/ CallTrend \/ CallSentimentNum
    \/ CallMovementScore \/ CallVolumeScore \/ CallTrendStrength

SpecScore == InitScore /\ [][NextScore]_vars

----------------------------------------------------------------------------
(* AnalysisAgent.run: the join loop *)

\* datetime.now() as the program can observe it
Clock == {1, 2}

\* the dict appended to rows for one (article, ticker) match
MatchRow(article, ticker, now) ==
    LET title      == Get(article, "title", "")
        summary    == Get(article, "summary", "")
        sent_label == Get(article, "sentiment", "neutral")
        sent_num   == _sentiment_num(sent_label)
        keywords   == Get(article, "keywords", <<>>)
        timestamp  == Get(article, "timestamp", now)
        mkt        == market_data[ticker]
        movement   == _movement_score(mkt)
        vol_score  == _volume_score(Get(mkt, "volume", 0))
        impact     == _impact_score(sent_num, movement, vol_score)
    IN  [symbol          |-> ticker,
         sentiment_label |-> sent_label,
         sentiment_num   |-> sent_num,
         movement_score  |-> movement,
         volume          |-> Get(mkt, "volume", 0),
         volume_score    |-> vol_score,
         impact_score    |-> impact,
         trend           |-> _trend(impact, 1),
         open            |-> Get(mkt, "open", 0),
         close           |-> Get(mkt, "close", 0),
         high            |-> Get(mkt, "high", 0),
         low             |-> Get(mkt, "low", 0),
         news_headline   |-> title,
         matched_news    |-> title,
         summary         |-> summary,
         keywords        |-> keywords,
         timestamp       |-> timestamp]

\* variant: the loop left at the first ticker without a quote
RECURSIVE ArticleRows_break(_, _, _, _)
ArticleRows_break(article, companies, k, now) ==
    IF k > Len(companies) THEN <<>>
    ELSE IF companies[k] \notin DOMAIN market_data
         THEN <<>>
         ELSE <<MatchRow(article, companies[k], now)>>
              \o ArticleRows_break(article, companies, k + 1, now)

\* variant: a ticker the article already mentioned is skipped
RECURSIVE ArticleRows_dedup(_, _, _, _)
ArticleRows_dedup(article, companies, k, now) ==
    IF k > Len(companies) THEN <<>>
    ELSE IF \/ companies[k] \notin DOMAIN market_data
            \/ \E j \in 1..(k - 1) : companies[j] = companies[k]
         THEN ArticleRows_dedup(article, companies, k + 1, now)
         ELSE <<MatchRow(article, companies[k], now)>>
              \o ArticleRows_dedup(article, companies, k + 1, now)

\* the inner loop "for ticker in companies" from mention k on
RECURSIVE ArticleRows(_, _, _, _)
ArticleRows(article, companies, k, now) ==
    IF k > Len(companies) THEN <<>>
    ELSE IF companies[k] \notin DOMAIN market_data
         THEN ArticleRows(article, companies, k + 1, now)
         ELSE <<MatchRow(article, companies[k], now)>>
              \o ArticleRows(article, companies, k + 1, now)

----------------------------------------------------------------------------
(* AnalysisAgent.run: aggregation per ticker *)

RECURSIVE SeqSum(_)
SeqSum(s) == IF s = <<>> THEN 0 ELSE Head(s) + SeqSum(Tail(s))

SeqMax(s) == CHOOSE x \in {s[i] : i \in DOMAIN s} :
                 \A i \in DOMAIN s : s[i] <= x
SeqMin(s) == CHOOSE x \in {s[i] : i \in DOMAIN s} :
                 \A i \in DOMAIN s : x <= s[i]

\* variant: the last occurrence of the maximum
idxmax_last(s) == CHOOSE i \in DOMAIN s :
                 /\ s[i] = SeqMax(s)
                 /\ \A j \in DOMAIN s : s[j] = SeqMax(s) => j <= i
\* Series.idxmax(): position of the first occurrence of the maximum
idxmax(s) == CHOOSE i \in DOMAIN s :
                 /\ s[i] = SeqMax(s)
                 /\ \A j \in DOMAIN s : s[j] = SeqMax(s) => i <= j

\* the rows of one symbol, in frame order
RECURSIVE Group(_, _)
Group(df, sym) ==
    IF df = <<>> THEN <<>>
    ELSE IF Head(df).symbol = sym THEN <<Head(df)>> \o Group(Tail(df), sym)
         ELSE Group(Tail(df), sym)

\* the group keys in sorted order (groupby sorts its keys)
RECURSIVE SortedKeys(_)
SortedKeys(S) ==
    IF S = {} THEN <<>>
    ELSE LET m == CHOOSE x \in S : \A y \in S : SymIdx(x) <= SymIdx(y)
         IN  <<m>> \o SortedKeys(S \ {m})

\* variant: article_count counts distinct headlines
Summary_distinct_articles(g, name) ==
    LET impacts == [i \in DOMAIN g |-> g[i].impact_score]
        top     == idxmax(impacts)
    IN  [symbol          |-> name,
         avg_impact      |-> round4(SeqSum(impacts), Len(g)),
         max_impact      |-> round4(SeqMax(impacts), 1),
         min_impact      |-> round4(SeqMin(impacts), 1),
         article_count   |-> Cardinality({g[i].news_headline : i \in DOMAIN g}),
         trend           |-> _trend(SeqSum(impacts), Len(g)),
         open            |-> g[1].open,
         close           |-> g[1].close,
         volume          |-> g[1].volume,
         top_headline    |-> g[top].news_headline,
         top_summary     |-> g[top].summary,
         sentiment_label |-> g[top].sentiment_label]

\* variant: open and close exchanged
Summary_swapped(g, name) ==
    LET impacts == [i \in DOMAIN g |-> g[i].impact_score]
        top     == idxmax(impacts)
    IN  [symbol          |-> name,
         avg_impact      |-> round4(SeqSum(impacts), Len(g)),
         max_impact      |-> round4(SeqMax(impacts), 1),
         min_impact      |-> round4(SeqMin(impacts), 1),
         article_count   |-> Len(g),
         trend           |-> _trend(SeqSum(impacts), Len(g)),
         open            |-> g[1].close,
         close           |-> g[1].open,
         volume          |-> g[1].volume,
         top_headline    |-> g[top].news_headline,
         top_summary     |-> g[top].summary,
         sentiment_label |-> g[top].sentiment_label]

\* the pd.Series built for one group
Summary(g, name) ==
    LET impacts == [i \in DOMAIN g |-> g[i].impact_score]
        top     == idxmax(impacts)
    IN  [symbol          |-> name,
         avg_impact      |-> round4(SeqSum(impacts), Len(g)),
         max_impact      |-> round4(SeqMax(impacts), 1),
         min_impact      |-> round4(SeqMin(impacts), 1),
         article_count   |-> Len(g),
         trend           |-> _trend(SeqSum(impacts), Len(g)),
         open            |-> g[1].open,
         close           |-> g[1].close,
         volume          |-> g[1].volume,
         top_headline    |-> g[top].news_headline,
         top_summary     |-> g[top].summary,
         sentiment_label |-> g[top].sentiment_label]

\* df.groupby("symbol").apply(...).reset_index(drop=True)
Aggregated(df) ==
    LET keys == SortedKeys({df[i].symbol : i \in DOMAIN df})
    IN  [k \in DOMAIN keys |-> Summary(Group(df, keys[k]), keys[k])]

----------------------------------------------------------------------------
(* AnalysisAgent.run: ranking *)

\* sort_values("avg_impact", ascending) with the default kind "quicksort":
\* the result is ordered by avg_impact, and the order among records of
\* equal avg_impact is left to the sorting algorithm (it is not a stable
\* sort).  The operator gives every order the call can return, as
\* sequences of positions of agg.
RECURSIVE SortOrders(_, _, _)
SortOrders(agg, S, ascending) ==
    IF S = {} THEN {<<>>}
    ELSE LET first == {i \in S : \A j \in S :
                          IF ascending
                          THEN agg[i].avg_impact <= agg[j].avg_impact
                          ELSE agg[i].avg_impact >= agg[j].avg_impact}
         IN  UNION { { <<i>> \o rest :
                        rest \in SortOrders(agg, S \ {i}, ascending) } :
                     i \in first }

sort_values(agg, ascending) ==
    { [k \in DOMAIN order |-> agg[order[k]]] :
        order \in SortOrders(agg, DOMAIN agg, ascending) }

\* variant: one record short
head_short(s, n) == SubSeq(s, 1, IF Len(s) < n - 1 THEN Len(s) ELSE n - 1)
\* DataFrame.head(n)
head(s, n) == SubSeq(s, 1, IF Len(s) < n THEN Len(s) ELSE n)

----------------------------------------------------------------------------
(* AnalysisAgent: construction and run() *)

\* AnalysisAgent(): creates the data directory, nothing else
AnalysisAgent_init ==
    /\ pc = "idle"
    /\ pc' = "constructed"
    /\ UNCHANGED otherVars
    /\ UNCHANGED <<IMPACT_WEIGHTS, news_processed, market_file,
                   analysis_output, news_list, market_data, idx, rows, probe>>

\* run(): both input files loaded
Load ==
    /\ pc = "constructed"
    /\ news_list' = _load(news_processed)
    /\ market_data' = _load(market_file)
    /\ idx' = 0
    /\ rows' = <<>>
    /\ pc' = "join"
    /\ UNCHANGED otherVars
    /\ UNCHANGED <<IMPACT_WEIGHTS, news_processed, market_file,
                   analysis_output, probe>>

\* run(): one iteration of "for article in news_list"
JoinArticle ==
    /\ pc = "join"
    /\ idx < Len(news_list)
    /\ \E now \in Clock :
          LET article == news_list[idx + 1]
          IN  rows' = rows \o ArticleRows(article,
                                 Get(article, "companies", <<>>), 1, now)
    /\ idx' = idx + 1
    /\ UNCHANGED otherVars
    /\ UNCHANGED <<IMPACT_WEIGHTS, news_processed, market_file,
                   analysis_output, pc, news_list, market_data, probe>>

\* variant: no "if rows" guard; grouping the empty frame raises
Aggregate_unguarded ==
    /\ pc = "join"
    /\ idx = Len(news_list)
    /\ \E now \in Clock :
         IF rows # <<>>
         THEN LET agg == Aggregated(rows)
              IN  \E bull \in sort_values(agg, FALSE),
                     bear \in sort_values(agg, TRUE) :
                     analysis_output' =
                         [written        |-> TRUE,
                          generated_at   |-> now,
                          top_10_bullish |-> head(bull, TOP_N),
                          top_10_bearish |-> head(bear, TOP_N),
                          aggregated     |-> agg,
                          full_list      |-> rows]
         ELSE analysis_output' = analysis_output
    /\ pc' = IF rows # <<>> THEN "done" ELSE "failed"
    /\ UNCHANGED otherVars
    /\ UNCHANGED <<IMPACT_WEIGHTS, news_processed, market_file,
                   news_list, market_data, idx, rows, probe>>

\* run(): after the loop, aggregate, rank and write analysis_output.json
Aggregate ==
    /\ pc = "join"
    /\ idx = Len(news_list)
    /\ \E now \in Clock :
         IF rows # <<>>
         THEN LET agg == Aggregated(rows)
              IN  \E bull \in sort_values(agg, FALSE),
                     bear \in sort_values(agg, TRUE) :
                     analysis_output' =
                         [written        |-> TRUE,
                          generated_at   |-> now,
                          top_10_bullish |-> head(bull, TOP_N),
                          top_10_bearish |-> head(bear, TOP_N),
                          aggregated     |-> agg,
                          full_list      |-> rows]
         ELSE analysis_output' =
                  [written        |-> TRUE,
                   generated_at   |-> now,
                   top_10_bullish |-> <<>>,
                   top_10_bearish |-> <<>>,
                   aggregated     |-> <<>>,
                   full_list      |-> <<>>]
    /\ pc' = "done"
    /\ UNCHANGED otherVars
    /\ UNCHANGED <<IMPACT_WEIGHTS, news_processed, market_file,
                   news_list, market_data, idx, rows, probe>>

Next == AnalysisAgent_init \/ Load \/ JoinArticle \/ Aggregate

----------------------------------------------------------------------------
(* Inputs of a run: the contents of the two input files *)

TITLES    == <<"headline 1", "headline 2", "headline 3", "headline 4",
               "headline 5">>
SUMMARIES == <<"summary 1", "summary 2", "summary 3", "summary 4",
               "summary 5">>

RunLabels == {"1 star", "5 stars", "neutral"}

\* mention lists: one ticker; two tickers; a ticker twice around an index
MentionLists == { <<"AAPL">>, <<"XOM", "AAPL">>, <<"AAPL", "SPY", "AAPL">> }

\* what the NLP stage wrote for one article, before title and summary
ArticleShapes ==
    { [sentiment |-> l, companies |-> c, keywords |-> <<"stocks">>,
       timestamp |-> 0] : l \in RunLabels, c \in MentionLists }
    \cup { [keywords |-> <<>>] }

Titled(shapes) ==
    [i \in DOMAIN shapes |->
        [title |-> TITLES[i], summary |-> SUMMARIES[i]] @@ shapes[i]]

ShapeSeqs(n) == UNION { [1..k -> ArticleShapes] : k \in 0..n }

Quote(o, c, v) ==
    [open |-> o, high |-> IF o > c THEN o ELSE c,
     low |-> IF o > c THEN c ELSE o, close |-> c, volume |-> v]

\* prices in cents
SmallMarkets ==
    { [s \in {"AAPL", "XOM"} |-> Quote(2500, 2952, 2000000)],
      [s \in {"AAPL", "XOM"} |->
          IF s = "AAPL" THEN Quote(10000, 10500, 60000000)
                        ELSE Quote(5000, 4900, 500000)],
      [s \in {"XOM"} |-> Quote(0, 500, 10000000)],
      <<>> }

\* few articles over two quoted tickers and an index
SmallInputs ==
    { [news |-> File(Titled(sh)), market |-> File(m)] :
        sh \in ShapeSeqs(MaxArticles), m \in SmallMarkets }

\* one article mentioning the first k symbols, last symbol first
Mentions(k) == [i \in 1..k |-> US_MARKET_SYMBOLS[k + 1 - i]]

Max2(a, b) == IF a > b THEN a ELSE b
Min2(a, b) == IF a < b THEN a ELSE b

\* closing prices per symbol position: all distinct; the two lowest equal;
\* all from position TOP_N on equal
Pattern(p, i) ==
    CASE p = "distinct" -> i
      [] p = "low tie"  -> Max2(i, 2)
      [] p = "high tie" -> Min2(i, TOP_N)

WideMarket(k, p) ==
    [s \in {US_MARKET_SYMBOLS[i] : i \in 1..k} |->
        Quote(10000, 10000 + 20 * Pattern(p, SymIdx(s)), 500000)]

WideInputs ==
    { [news |-> File(Titled(<<[sentiment |-> l, companies |-> Mentions(k),
                               keywords |-> <<>>, timestamp |-> 0]>>)),
       market |-> File(WideMarket(k, p))] :
        l \in RunLabels, k \in 1..MaxTickers,
        p \in {"distinct", "low tie", "high tie"} }

\* an input file missing or unreadable
BrokenInputs ==
    { [news |-> NoFile, market |-> File(<<>>)],
      [news |-> File(Titled(<<[sentiment |-> "1 star",
                               companies |-> <<"AAPL">>,
                               keywords |-> <<>>, timestamp |-> 0]>>)),
       market |-> NoFile] }

\* one article on one ticker with one quote
ScenarioInputs ==
    { [news |-> File(Titled(<<[sentiment |-> "5 stars",
                               companies |-> <<"AAPL">>,
                               keywords |-> <<>>, timestamp |-> 0]>>)),
       market |-> File([s \in {"AAPL"} |-> Quote(10000, 10500, 60000000)])],
      [news |-> File(Titled(<<[sentiment |-> "1 star",
                               companies |-> <<"XOM">>,
                               keywords |-> <<>>, timestamp |-> 0]>>)),
       market |-> File([s \in {"XOM"} |-> Quote(5000, 4900, 500000)])] }

RunInputs == SmallInputs \cup WideInputs \cup BrokenInputs \cup ScenarioInputs

InitRun ==
    /\ \E in \in RunInputs :
          /\ news_processed = in.news
          /\ market_file = in.market
    /\ analysis_output = NoOutput
    /\ pc = "idle"
    /\ news_list = <<>>
    /\ market_data = <<>>
    /\ idx = 0
    /\ rows = <<>>
    /\ probe = NoProbe
    /\ InitOther

Init ==
    /\ IMPACT_WEIGHTS = CONFIGURED_WEIGHTS
    /\ InitRun

Spec == Init /\ [][Next]_vars

----------------------------------------------------------------------------
(* Specification SpecConfig: the program started with IMPACT_WEIGHTS as    *)
(* config.py may be edited to set them.                                    *)

WeightChoices ==
    { CONFIGURED_WEIGHTS,
      [sentiment |-> 50, movement |-> 35, volume |-> 20],
      [sentiment |-> 45, movement |-> 35, volume |-> 10] }

InitConfig ==
    /\ IMPACT_WEIGHTS \in WeightChoices
    /\ InitRun

SpecConfig == InitConfig /\ [][Next]_vars

----------------------------------------------------------------------------
(* Runs over records with absent keys *)

Restrict(rec, keys) == [k \in keys |-> rec[k]]

FullArticle ==
    [title |-> "Apple beats estimates", summary |-> "Record quarter",
     sentiment |-> "1 star", companies |-> <<"AAPL">>,
     keywords |-> <<"stocks">>, timestamp |-> 0]

FullQuote == Quote(10000, 10500, 60000000)

\* one article and one quote, each with any subset of its keys
MissingInputs ==
    { [news |-> File(<<Restrict(FullArticle, ak)>>),
       market |-> File([s \in {"AAPL"} |-> Restrict(FullQuote, qk)])] :
      ak \in SUBSET (DOMAIN FullArticle), qk \in SUBSET (DOMAIN FullQuote) }

InitMissing ==
    /\ IMPACT_WEIGHTS = CONFIGURED_WEIGHTS
    /\ \E in \in MissingInputs :
          /\ news_processed = in.news
          /\ market_file = in.market
    /\ analysis_output = NoOutput
    /\ pc = "idle"
    /\ news_list = <<>>
    /\ market_data = <<>>
    /\ idx = 0
    /\ rows = <<>>
    /\ probe = NoProbe
    /\ InitOther

SpecMissing == InitMissing /\ [][Next]_vars

----------------------------------------------------------------------------
(* Repeated runs over unchanged input files *)

\* the pipeline's next cycle: a new AnalysisAgent over the same files
Rerun ==
    /\ pc = "done"
    /\ pc' = "constructed"
    /\ UNCHANGED otherVars
    /\ UNCHANGED <<IMPACT_WEIGHTS, news_processed, market_file,
                   analysis_output, news_list, market_data, idx, rows, probe>>

NextRerun == Next \/ Rerun

RerunLabels == {"1 star", "5 stars", "neutral"}

\* articles with and without the timestamp key
RerunShapes ==
    { [sentiment |-> l, companies |-> c, keywords |-> <<>>, timestamp |-> 0] :
      l \in RerunLabels, c \in {<<"AAPL">>, <<"XOM", "AAPL">>} }
    \cup
    { [sentiment |-> l, companies |-> c, keywords |-> <<>>] :
      l \in RerunLabels, c \in {<<"AAPL">>, <<"XOM", "AAPL">>} }

RerunMarket ==
    [s \in {"AAPL", "XOM"} |->
        IF s = "AAPL" THEN Quote(10000, 10500, 60000000)
        ELSE Quote(5000, 4900, 500000)]

RerunInputs ==
    { [news |-> File(Titled(shapes)), market |-> File(RerunMarket)] :
      shapes \in UNION { [1..k -> RerunShapes] : k \in 0..2 } }

InitRerun ==
    /\ IMPACT_WEIGHTS = CONFIGURED_WEIGHTS
    /\ \E in \in RerunInputs :
          /\ news_processed = in.news
          /\ market_file = in.market
    /\ analysis_output = NoOutput
    /\ pc = "idle"
    /\ news_list = <<>>
    /\ market_data = <<>>
    /\ idx = 0
    /\ rows = <<>>
    /\ probe = NoProbe
    /\ InitOther

SpecRerun == InitRerun /\ [][NextRerun]_vars

----------------------------------------------------------------------------
(* Properties of the scoring functions, checked under SpecScore *)

Sgn(x) == IF x > 0 THEN 1 ELSE IF x < 0 THEN -1 ELSE 0

ImpactCalled == probe.kind = "impact" /\ probe.done

\* C1: _impact_score returns 0.45*sentiment_num + 0.35*movement
\* + 0.20*volume_score*sign rounded to 4 decimals, where sign is +1 for
\* sentiment_num >= 0 and -1 otherwise: the result is the 4-decimal value
\* nearest to that sum (the even one when the sum lies halfway).
ImpactScoreFormula ==
    ImpactCalled =>
        LET sign == IF probe.s >= 0 THEN 1 ELSE -1
            sum  == 45 * probe.s + 35 * probe.m + 20 * probe.v * sign
            err  == 100 * probe.impact - sum
        IN  /\ err \in -50..50
            /\ (err \in {-50, 50} => probe.impact % 2 = 0)

\* C1 witness: a call with negative sentiment, rising price and volume
ImpactScoreFormulaWitness ==
    ImpactCalled /\ probe.s < 0 /\ probe.m > 0 /\ probe.v > 0

\* C2 as stated: the sign of the impact score equals the sign of the
\* impact score of the same call with volume_score = 0.
VolumeNeverFlipsSign ==
    ImpactCalled => Sgn(probe.impact) = Sgn(probe.impact0)

\* C2 amended: when the zero-volume score is non-zero and points the way
\* sentiment points (positive with sentiment_num >= 0, negative with
\* sentiment_num < 0), the volume term does not change its sign.
VolumeKeepsSentimentSign ==
    ImpactCalled =>
        /\ (probe.s >= 0 /\ probe.impact0 > 0 => probe.impact > 0)
        /\ (probe.s < 0 /\ probe.impact0 < 0 => probe.impact < 0)

\* C2 witness: positive sentiment, falling price, positive zero-volume score
VolumeKeepsSentimentSignWitness ==
    /\ ImpactCalled
    /\ probe.s > 0 /\ probe.m < 0 /\ probe.v > 0 /\ probe.impact0 > 0

\* C3: with sentiment_num >= 0 the impact score is never below the impact
\* score of the same call with volume_score = 0.
VolumeNeverLowersBullish ==
    ImpactCalled /\ probe.s >= 0 => probe.impact >= probe.impact0

\* C3 witness: neutral sentiment, falling price, the highest volume score
VolumeNeverLowersBullishWitness ==
    /\ ImpactCalled
    /\ probe.s = 0 /\ probe.m < 0 /\ probe.v = 10000
    /\ probe.impact > probe.impact0

TrendCalled == probe.kind = "trend" /\ probe.done

\* C5: _trend gives > 0.25 Strong Bullish, (0.05, 0.25] Moderate Bullish,
\* [-0.05, 0.05] Neutral, [-0.25, -0.05) Moderate Bearish, < -0.25 Strong
\* Bearish; every score gets exactly the label of its band.
TrendBands ==
    TrendCalled =>
        LET x == probe.s
            t == probe.trend
        IN  /\ (t = "Strong Bullish")   <=> (x > 2500)
            /\ (t = "Moderate Bullish") <=> (500 < x /\ x <= 2500)
            /\ (t = "Neutral")          <=> (-500 <= x /\ x <= 500)
            /\ (t = "Moderate Bearish") <=> (-2500 <= x /\ x < -500)
            /\ (t = "Strong Bearish")   <=> (x < -2500)

\* C5 witness: the boundary 0.25 classified
TrendBandsWitness ==
    TrendCalled /\ probe.s = 2500 /\ probe.trend = "Moderate Bullish"

----------------------------------------------------------------------------
(* Properties of a run of the analysis engine *)

WeightSum ==
    IMPACT_WEIGHTS.sentiment + IMPACT_WEIGHTS.movement + IMPACT_WEIGHTS.volume

\* C4: weights that do not sum to 1.0 stop the program at startup: no run
\* computes an impact score or writes a RankedOutput under such weights.
BadWeightsNeverScore ==
    (rows # <<>> \/ analysis_output.written) => WeightSum = 100

Written == analysis_output.written

\* positions of full_list holding the rows of one symbol
RowsOfSymbol(sym) ==
    {i \in DOMAIN analysis_output.full_list :
        analysis_output.full_list[i].symbol = sym}

RECURSIVE ImpactTotal(_)
ImpactTotal(S) ==
    IF S = {} THEN 0
    ELSE LET i == CHOOSE j \in S : TRUE
         IN  analysis_output.full_list[i].impact_score + ImpactTotal(S \ {i})

\* C6: every TickerSummary's trend is the trend classification of its own
\* avg_impact field.
TrendMatchesAvgImpact ==
    Written =>
        \A k \in DOMAIN analysis_output.aggregated :
            LET r == analysis_output.aggregated[k]
            IN  r.trend = _trend(r.avg_impact, 1)

\* C7: aggregated has exactly one summary per distinct ticker of full_list
\* and none for another ticker; per ticker, article_count is the number N
\* of its rows (N >= 1), max_impact and min_impact are the largest and
\* smallest impact score of those rows, and avg_impact is their mean
\* rounded to 4 decimals.
AggregationExact ==
    Written =>
        LET fl == analysis_output.full_list
            ag == analysis_output.aggregated
        IN  /\ \A i \in DOMAIN fl : \E k \in DOMAIN ag : ag[k].symbol = fl[i].symbol
            /\ \A k, l \in DOMAIN ag : ag[k].symbol = ag[l].symbol => k = l
            /\ \A k \in DOMAIN ag :
                 LET G   == RowsOfSymbol(ag[k].symbol)
                     N   == Cardinality(G)
                     err == ag[k].avg_impact * N - ImpactTotal(G)
                 IN  /\ N >= 1
                     /\ ag[k].article_count = N
                     /\ \E i \in G : fl[i].impact_score = ag[k].max_impact
                     /\ \A i \in G : fl[i].impact_score <= ag[k].max_impact
                     /\ \E i \in G : fl[i].impact_score = ag[k].min_impact
                     /\ \A i \in G : fl[i].impact_score >= ag[k].min_impact
                     /\ 2 * err <= N /\ -2 * err <= N
                     /\ (2 * err = N \/ -2 * err = N => ag[k].avg_impact % 2 = 0)

\* C7 witness: two tickers, one of them with three rows, two of which come
\* from one article, of differing impact
AggregationExactWitness ==
    /\ Written
    /\ Len(analysis_output.aggregated) = 2
    /\ \E k \in DOMAIN analysis_output.aggregated :
          LET r == analysis_output.aggregated[k]
          IN  /\ r.article_count = 3
              /\ r.max_impact > r.avg_impact /\ r.avg_impact > r.min_impact
              /\ \E i, j \in RowsOfSymbol(r.symbol) :
                    /\ i # j
                    /\ analysis_output.full_list[i].news_headline
                         = analysis_output.full_list[j].news_headline

\* the first row of the symbol, in full_list order, with the maximum impact
TopRow(sym) ==
    CHOOSE i \in RowsOfSymbol(sym) :
        /\ \A j \in RowsOfSymbol(sym) :
              analysis_output.full_list[j].impact_score
                 <= analysis_output.full_list[i].impact_score
        /\ \A j \in RowsOfSymbol(sym) :
              analysis_output.full_list[j].impact_score
                 = analysis_output.full_list[i].impact_score => i <= j

\* C8: top_headline, top_summary and sentiment_label of a TickerSummary all
\* come from one row: the ticker's row of maximum impact_score, the first
\* such row in full_list order when several tie.
TopFieldsFromFirstMaxRow ==
    Written =>
        \A k \in DOMAIN analysis_output.aggregated :
            LET r   == analysis_output.aggregated[k]
                top == analysis_output.full_list[TopRow(r.symbol)]
            IN  /\ r.top_headline = top.news_headline
                /\ r.top_summary = top.summary
                /\ r.sentiment_label = top.sentiment_label

\* C8 witness: a ticker whose maximum is shared by rows of two articles and
\* preceded by a lower row
TopFieldsFromFirstMaxRowWitness ==
    /\ Written
    /\ \E k \in DOMAIN analysis_output.aggregated :
          LET r  == analysis_output.aggregated[k]
              fl == analysis_output.full_list
          IN  \E h, i, j \in RowsOfSymbol(r.symbol) :
                 /\ h < i /\ i < j
                 /\ fl[h].impact_score < r.max_impact
                 /\ fl[i].impact_score = r.max_impact
                 /\ fl[j].impact_score = r.max_impact
                 /\ fl[i].news_headline # fl[j].news_headline

DistinctTickers ==
    Cardinality({analysis_output.full_list[i].symbol :
                    i \in DOMAIN analysis_output.full_list})

\* s is a selection of Min(10, number of tickers) summaries of aggregated,
\* without repetition, ordered by avg_impact, that leaves out no summary
\* better than one it includes
RankedSelection(s, ascending) ==
    LET ag == analysis_output.aggregated
        Before(x, y) == IF ascending THEN x <= y ELSE x >= y
    IN  /\ Len(s) = Min2(10, DistinctTickers)
        /\ \A a, b \in DOMAIN s : a < b => Before(s[a].avg_impact, s[b].avg_impact)
        /\ \A a \in DOMAIN s : \E k \in DOMAIN ag : ag[k] = s[a]
        /\ \A a, b \in DOMAIN s : s[a].symbol = s[b].symbol => a = b
        /\ \A k \in DOMAIN ag :
              (\A a \in DOMAIN s : s[a] # ag[k]) =>
                  \A a \in DOMAIN s : Before(s[a].avg_impact, ag[k].avg_impact)

\* C9: top_10_bullish is ordered by avg_impact descending and
\* top_10_bearish ascending; each has min(10, distinct tickers) entries,
\* drawn from aggregated without repetition, and no summary left out beats
\* an included one.
RankingCorrect ==
    Written =>
        /\ RankedSelection(analysis_output.top_10_bullish, FALSE)
        /\ RankedSelection(analysis_output.top_10_bearish, TRUE)

\* C9 witness: eleven tickers ranked, ten kept
RankingCorrectWitness ==
    /\ Written
    /\ Len(analysis_output.aggregated) = 11
    /\ Len(analysis_output.top_10_bullish) = 10
    /\ analysis_output.top_10_bullish[1].avg_impact
          > analysis_output.top_10_bullish[10].avg_impact

AggPos(r) ==
    CHOOSE k \in DOMAIN analysis_output.aggregated :
        analysis_output.aggregated[k].symbol = r.symbol

\* summaries of equal avg_impact keep the order of aggregated, inside s and
\* across the cut between s and the summaries left out
TiesInInputOrder(s) ==
    LET ag == analysis_output.aggregated
    IN  /\ \A a, b \in DOMAIN s :
              a < b /\ s[a].avg_impact = s[b].avg_impact
                 => AggPos(s[a]) < AggPos(s[b])
        /\ \A k \in DOMAIN ag : \A a \in DOMAIN s :
              /\ \A b \in DOMAIN s : s[b].symbol # ag[k].symbol
              /\ ag[k].avg_impact = s[a].avg_impact
              => AggPos(s[a]) < k

\* C10: in top_10_bullish and in top_10_bearish, summaries of equal
\* avg_impact appear in the order they have in aggregated, and that order
\* decides which of them is cut at position 10.
RankingStable ==
    Written =>
        /\ TiesInInputOrder(analysis_output.top_10_bullish)
        /\ TiesInInputOrder(analysis_output.top_10_bearish)

----------------------------------------------------------------------------
(* Properties of the sub-scorers, checked under SpecScore *)

SentimentCalled == probe.kind = "sentiment" /\ probe.done

\* C16: _sentiment_num trims surrounding whitespace, lower-cases and looks
\* the label up exactly: "1 star" .. "5 stars" give -1.0, -0.5, 0.0, 0.5,
\* 1.0, "positive" 0.5, "negative" -0.5, "neutral" 0.0, any other label
\* 0.0; the result lies in [-1.0, 1.0].
SentimentLookup ==
    SentimentCalled =>
        LET l == probe.label
            r == probe.impact
        IN  /\ (l \in {"1 star"}) => r = -10000
            /\ (l \in {"2 stars", "negative", "NEGATIVE", "\tnegative\n"}) => r = -5000
            /\ (l \in {"3 stars", "neutral", "Neutral  "}) => r = 0
            /\ (l \in {"4 stars", "4 STARS", "positive", "  Positive"}) => r = 5000
            /\ (l \in {"5 stars", " 5 Stars "}) => r = 10000
            /\ (l \in {"very positive", "5 star", "5  stars", "bullish", ""}) => r = 0
            /\ -10000 <= r /\ r <= 10000

\* C16 witness: a padded, capitalised label found in the table
SentimentLookupWitness ==
    SentimentCalled /\ probe.label = " 5 Stars " /\ probe.impact = 10000

MovementCalled == probe.kind = "movement" /\ probe.done

\* C17: _movement_score is exactly 0.0 when open = 0, whatever close is,
\* and (close - open) / open rounded to 4 decimals otherwise.
MovementScoreFormula ==
    MovementCalled =>
        LET o   == probe.s
            c   == probe.m
            err == probe.impact * o - (c - o) * 10000
        IN  /\ o = 0 => probe.impact = 0
            /\ o # 0 => /\ 2 * err <= o /\ -2 * err <= o
                        /\ (2 * err = o \/ -2 * err = o => probe.impact % 2 = 0)

\* C17 witness: a quotient that rounding moves up (2/3 -> 0.6667)
MovementScoreFormulaWitness ==
    MovementCalled /\ probe.s = 3 /\ probe.m = 5 /\ probe.impact = 6667

VolumeCalled == probe.kind = "volume" /\ probe.done

\* C18: _volume_score is 1.0 above 50,000,000, else 0.5 above 10,000,000,
\* else 0.2 above 1,000,000, else 0.0, the thresholds themselves falling
\* in the lower band; it never decreases when volume grows and takes no
\* other value.
VolumeSteps ==
    VolumeCalled =>
        LET vol == probe.s
            r   == probe.impact
        IN  /\ r = 10000 <=> vol > 50000000
            /\ r = 5000  <=> (vol > 10000000 /\ vol <= 50000000)
            /\ r = 2000  <=> (vol > 1000000 /\ vol <= 10000000)
            /\ r = 0     <=> vol <= 1000000
            /\ r \in {0, 2000, 5000, 10000}
            /\ (probe.s <= probe.m => probe.impact <= probe.impact0)

\* C18 witness: a threshold and the volume just above it
VolumeStepsWitness ==
    /\ VolumeCalled
    /\ probe.s = 10000000 /\ probe.m = 10000001
    /\ probe.impact = 2000 /\ probe.impact0 = 5000

----------------------------------------------------------------------------
(* Properties of the join, checked under Spec *)

MentionsOf(i) == Get(news_list[i], "companies", <<>>)

\* the (article, mention position) pairs whose ticker has a quote
QuotedMentions ==
    UNION { { <<i, k>> : k \in {k \in DOMAIN MentionsOf(i) :
                                   MentionsOf(i)[k] \in DOMAIN market_data} } :
            i \in DOMAIN news_list }

\* C11: every MatchRow's ticker is a key of the quote mapping the run read;
\* a mention without a quote gives no row and no error, and takes no row
\* away from the article's other mentions or from later articles: each
\* article has, per quoted ticker, as many rows as it mentions the ticker.
RowsOnlyForQuotedTickers ==
    Written =>
        LET fl == analysis_output.full_list
        IN  /\ \A j \in DOMAIN fl : fl[j].symbol \in DOMAIN market_data
            /\ \A i \in DOMAIN news_list : \A sym \in DOMAIN market_data :
                  Cardinality({j \in DOMAIN fl :
                                  /\ fl[j].news_headline = news_list[i].title
                                  /\ fl[j].symbol = sym})
                    = Cardinality({k \in DOMAIN MentionsOf(i) :
                                      MentionsOf(i)[k] = sym})

\* C11 witness: an index without a quote between two quoted mentions of the
\* first article, and a later article with a row
RowsOnlyForQuotedTickersWitness ==
    /\ Written
    /\ Len(news_list) >= 2
    /\ MentionsOf(1) = <<"AAPL", "SPY", "AAPL">>
    /\ "AAPL" \in DOMAIN market_data /\ "SPY" \notin DOMAIN market_data
    /\ \E j \in DOMAIN analysis_output.full_list :
          analysis_output.full_list[j].news_headline = news_list[2].title

LexBefore(q, p) == q[1] < p[1] \/ (q[1] = p[1] /\ q[2] < p[2])

\* C12: full_list holds exactly one row per quoted (article, mention
\* position), in article order and then mention order; nothing is sorted
\* and a ticker mentioned twice by an article gives two rows.
FullListInInsertionOrder ==
    Written =>
        LET fl == analysis_output.full_list
        IN  /\ Len(fl) = Cardinality(QuotedMentions)
            /\ \A p \in QuotedMentions :
                  LET rank == 1 + Cardinality({q \in QuotedMentions :
                                                  LexBefore(q, p)})
                  IN  /\ fl[rank].symbol = MentionsOf(p[1])[p[2]]
                      /\ fl[rank].news_headline = news_list[p[1]].title

\* C12 witness: rows out of ticker order, and two rows of one article for
\* one ticker
FullListInInsertionOrderWitness ==
    /\ Written
    /\ LET fl == analysis_output.full_list
       IN  /\ Len(fl) >= 4
           /\ fl[1].symbol = "XOM" /\ fl[2].symbol = "AAPL"
           /\ \E i, j \in DOMAIN fl :
                 /\ i < j
                 /\ fl[i].symbol = fl[j].symbol
                 /\ fl[i].news_headline = fl[j].news_headline

RunOver == pc \notin {"idle", "constructed", "join"}

\* C13: a run without any MatchRow (no articles, an input file that cannot
\* be read, no mentions, or no mention with a quote) ends without error and
\* writes a RankedOutput whose four sequences are empty.
EmptyRunWritesEmptyOutput ==
    RunOver /\ QuotedMentions = {} =>
        /\ pc = "done"
        /\ Written
        /\ analysis_output.top_10_bullish = <<>>
        /\ analysis_output.top_10_bearish = <<>>
        /\ analysis_output.aggregated = <<>>
        /\ analysis_output.full_list = <<>>

\* C13 witness: a finished run whose articles mention tickers, none quoted
EmptyRunWritesEmptyOutputWitness ==
    /\ pc = "done"
    /\ Written
    /\ \E i \in DOMAIN news_list : MentionsOf(i) # <<>>
    /\ QuotedMentions = {}
    /\ analysis_output.full_list = <<>>

\* C19: a "5 stars" article on AAPL with quote {open 100, close 105,
\* volume 60,000,000} gives one row with sentiment 1.0, movement 0.05,
\* volume score 1.0, impact 0.6675, "Strong Bullish"; a "1 star" article on
\* XOM with quote {open 50, close 49, volume 500,000} gives -1.0, -0.02,
\* 0.0, -0.457, "Strong Bearish".
WorkedScenarios ==
    Written /\ Len(news_list) = 1 =>
        LET fl == analysis_output.full_list
            a  == news_list[1]
        IN  /\ ( /\ Get(a, "sentiment", "") = "5 stars"
                 /\ MentionsOf(1) = <<"AAPL">>
                 /\ "AAPL" \in DOMAIN market_data
                 /\ market_data["AAPL"].open = 10000
                 /\ market_data["AAPL"].close = 10500
                 /\ market_data["AAPL"].volume = 60000000 )
               => /\ Len(fl) = 1
                  /\ fl[1].sentiment_num = 10000
                  /\ fl[1].movement_score = 500
                  /\ fl[1].volume_score = 10000
                  /\ fl[1].impact_score = 6675
                  /\ fl[1].trend = "Strong Bullish"
            /\ ( /\ Get(a, "sentiment", "") = "1 star"
                 /\ MentionsOf(1) = <<"XOM">>
                 /\ "XOM" \in DOMAIN market_data
                 /\ market_data["XOM"].open = 5000
                 /\ market_data["XOM"].close = 4900
                 /\ market_data["XOM"].volume = 500000 )
               => /\ Len(fl) = 1
                  /\ fl[1].sentiment_num = -10000
                  /\ fl[1].movement_score = -200
                  /\ fl[1].volume_score = 0
                  /\ fl[1].impact_score = -4570
                  /\ fl[1].trend = "Strong Bearish"

\* C19 witness: the XOM scenario has run
WorkedScenariosWitness ==
    /\ Written
    /\ Len(news_list) = 1
    /\ MentionsOf(1) = <<"XOM">>
    /\ news_list[1].sentiment = "1 star"
    /\ DOMAIN market_data = {"XOM"}
    /\ market_data["XOM"].open = 5000 /\ market_data["XOM"].close = 4900
    /\ Len(analysis_output.full_list) = 1
    /\ analysis_output.full_list[1].impact_score = -4570

\* C20: the rows of one ticker agree on open, close, volume, movement_score
\* and volume_score, and a TickerSummary's open, close and volume are those
\* of the ticker's first row in full_list.
QuoteFieldsShared ==
    Written =>
        LET fl == analysis_output.full_list
            ag == analysis_output.aggregated
        IN  /\ \A i, j \in DOMAIN fl :
                  fl[i].symbol = fl[j].symbol =>
                      /\ fl[i].open = fl[j].open
                      /\ fl[i].close = fl[j].close
                      /\ fl[i].volume = fl[j].volume
                      /\ fl[i].movement_score = fl[j].movement_score
                      /\ fl[i].volume_score = fl[j].volume_score
            /\ \A k \in DOMAIN ag :
                  LET first == CHOOSE i \in RowsOfSymbol(ag[k].symbol) :
                                  \A j \in RowsOfSymbol(ag[k].symbol) : i <= j
                  IN  /\ ag[k].open = fl[first].open
                      /\ ag[k].close = fl[first].close
                      /\ ag[k].volume = fl[first].volume

\* C20 witness: two tickers with different quotes, one with several rows
QuoteFieldsSharedWitness ==
    /\ Written
    /\ Len(analysis_output.aggregated) = 2
    /\ analysis_output.aggregated[1].article_count >= 2
    /\ analysis_output.aggregated[1].open # analysis_output.aggregated[1].close
    /\ analysis_output.aggregated[1].open # analysis_output.aggregated[2].open

----------------------------------------------------------------------------
(* Properties of runs over incomplete records, checked under SpecMissing *)

\* C15: an article missing any subset of its keys and a quote missing any
\* subset of its keys are processed to the end: a missing sentiment scores
\* as "neutral" (0), missing companies give no rows, a missing title or
\* summary is the empty string, a missing quote number is 0 (so a missing
\* open gives movement 0 and a missing close with an open gives -1).
MissingKeysDefaulted ==
    RunOver =>
        /\ pc = "done"
        /\ Written
        /\ LET a  == news_list[1]
               q  == market_data["AAPL"]
               fl == analysis_output.full_list
               Has(r, k) == k \in DOMAIN r
               Num(k) == IF Has(q, k) THEN q[k] ELSE 0
           IN  IF ~Has(a, "companies") THEN fl = <<>>
               ELSE /\ Len(fl) = 1
                    /\ fl[1].symbol = "AAPL"
                    /\ fl[1].sentiment_label =
                          (IF Has(a, "sentiment") THEN a.sentiment
                           ELSE "neutral")
                    /\ fl[1].sentiment_num =
                          (IF Has(a, "sentiment") THEN -ONE ELSE 0)
                    /\ fl[1].news_headline =
                          (IF Has(a, "title") THEN a.title ELSE "")
                    /\ fl[1].matched_news = fl[1].news_headline
                    /\ fl[1].summary =
                          (IF Has(a, "summary") THEN a.summary ELSE "")
                    /\ fl[1].keywords =
                          (IF Has(a, "keywords") THEN a.keywords ELSE <<>>)
                    /\ fl[1].open = Num("open")
                    /\ fl[1].high = Num("high")
                    /\ fl[1].low = Num("low")
                    /\ fl[1].close = Num("close")
                    /\ fl[1].volume = Num("volume")
                    /\ fl[1].movement_score =
                          (IF ~Has(q, "open") THEN 0
                           ELSE IF ~Has(q, "close") THEN -ONE ELSE 500)
                    /\ fl[1].volume_score =
                          (IF Has(q, "volume") THEN ONE ELSE 0)

\* C15 witness: a finished run over an article without sentiment and title
\* and a quote without close and volume
MissingKeysDefaultedWitness ==
    /\ pc = "done"
    /\ Written
    /\ DOMAIN news_list[1] = {"summary", "companies", "keywords"}
    /\ DOMAIN market_data["AAPL"] = {"open", "high", "low"}
    /\ Len(analysis_output.full_list) = 1
    /\ analysis_output.full_list[1].sentiment_label = "neutral"
    /\ analysis_output.full_list[1].movement_score = -ONE

----------------------------------------------------------------------------
(* Properties of repeated runs, checked under SpecRerun *)

\* C14: a run over the files of the previous run writes the same
\* top_10_bullish, top_10_bearish, aggregated and full_list as the previous
\* run did; only generated_at may differ.
RerunsAgree ==
    [][ (pc = "join" /\ pc' = "done" /\ analysis_output.written) =>
            /\ analysis_output'.top_10_bullish = analysis_output.top_10_bullish
            /\ analysis_output'.top_10_bearish = analysis_output.top_10_bearish
            /\ analysis_output'.aggregated = analysis_output.aggregated
            /\ analysis_output'.full_list = analysis_output.full_list ]_vars

----------------------------------------------------------------------------
(* The two trend classifiers, checked under SpecScore *)

StrengthCalled == probe.kind = "strength" /\ probe.done

\* C27: AnalysisAgent._trend and ImpactAgent.trend_strength give the same
\* label for every score, the boundaries 0.25, 0.05, -0.05 and -0.25 and
\* scores between two multiples of 0.0001 included.
ClassifiersAgree ==
    StrengthCalled => probe.trend = probe.strength

\* C27 witness: the boundary -0.05 classified by both
ClassifiersAgreeWitness ==
    /\ StrengthCalled
    /\ probe.s = -500 /\ probe.m = 1
    /\ probe.strength = "Neutral"

----------------------------------------------------------------------------
(* The pipeline (src/crew/crew_pipeline.py) under the scheduler            *)
(* (src/scheduler.py).  What the network and the language models give a    *)
(* step is an input of the step.                                           *)

PIPELINE_STEPS == <<"News_Agent", "NLP_Agent", "Market_Agent", "Analysis_Agent">>

\* variant: a failed step does not stop the run
Proceed_continue(success) ==
    /\ results' = Append(results, [label |-> PIPELINE_STEPS[step],
                                   ok |-> success])
    /\ in_step' = FALSE
    /\ IF step = Len(PIPELINE_STEPS)
       THEN /\ returned' = "True"
            /\ step' = step
       ELSE /\ returned' = "none"
            /\ step' = step + 1

\* run_pipeline: fn() has returned success; stop, go on, or finish
Proceed(success) ==
    /\ results' = Append(results, [label |-> PIPELINE_STEPS[step],
                                   ok |-> success])
    /\ in_step' = FALSE
    /\ IF ~success
       THEN /\ returned' = "False"
            /\ step' = step
       ELSE IF step = Len(PIPELINE_STEPS)
       THEN /\ returned' = "True"
            /\ step' = step
       ELSE /\ returned' = "none"
            /\ step' = step + 1

AtStep(name) ==
    /\ sched = "running"
    /\ returned = "none"
    /\ PIPELINE_STEPS[step] = name

\* what NewsAgent.run may save: k raw articles
RawNews(k) ==
    [i \in 1..k |-> [title |-> TITLES[i], url |-> "https://example.com",
                     timestamp |-> 0, content |-> SUMMARIES[i]]]

RawChoices == { RawNews(k) : k \in 0..MaxRaw }

\* the tags the language models give: sentiment label and tickers
NlpTags ==
    << [sentiment |-> "1 star", companies |-> <<"AAPL">>],
       [sentiment |-> "5 stars", companies |-> <<"XOM", "AAPL">>],
       [sentiment |-> "neutral", companies |-> <<>>] >>

\* NLPAgent.sentiment and extract_companies are functions of the text:
\* the tags of the article with this title
NlpTag(title) ==
    LET i == CHOOSE i \in DOMAIN TITLES : TITLES[i] = title
    IN  NlpTags[((i - 1) % Len(NlpTags)) + 1]

\* NLPAgent.process: one enriched record per raw article, in order
process(raw) ==
    [i \in DOMAIN raw |->
        [title |-> Get(raw[i], "title", ""),
         url |-> Get(raw[i], "url", ""),
         timestamp |-> Get(raw[i], "timestamp", 0),
         cleaned_text |-> "",
         summary |-> Get(raw[i], "content", ""),
         sentiment |-> NlpTag(Get(raw[i], "title", "")).sentiment,
         keywords |-> <<>>,
         companies |-> NlpTag(Get(raw[i], "title", "")).companies]]

\* what MarketAgent.run may save
MarketChoices == { RerunMarket, <<>> }

\* variant: a run started by a timer, whatever the previous run is doing
StartRun_timer ==
    /\ sched \in {"loop", "running"}
    /\ sched' = "running"
    /\ step' = 1
    /\ in_step' = FALSE
    /\ results' = <<>>
    /\ returned' = "none"
    /\ UNCHANGED agentVars
    /\ UNCHANGED <<IMPACT_WEIGHTS, runVars, probe, news_raw>>

\* scheduler.main: the top of "while True", run_pipeline() called
StartRun ==
    /\ sched = "loop"
    /\ sched' = "running"
    /\ step' = 1
    /\ in_step' = FALSE
    /\ results' = <<>>
    /\ returned' = "none"
    /\ UNCHANGED agentVars
    /\ UNCHANGED <<IMPACT_WEIGHTS, runVars, probe, news_raw>>

\* step_news: NewsAgent().run() saves its articles, or raises
StepNews ==
    /\ AtStep("News_Agent")
    /\ \/ \E raw \in RawChoices :
             /\ news_raw' = File(raw)
             /\ Proceed(TRUE)
       \/ /\ news_raw' = news_raw
          /\ Proceed(FALSE)
    /\ UNCHANGED agentVars
    /\ UNCHANGED <<IMPACT_WEIGHTS, runVars, probe, sched>>

\* variant: an empty news_raw.json is processed like any other
StepNlp_unguarded ==
    /\ AtStep("NLP_Agent")
    /\ IF news_raw.ok
       THEN \/ /\ news_processed' = File(process(news_raw.data))
               /\ Proceed(TRUE)
            \/ /\ news_processed' = news_processed
               /\ Proceed(FALSE)
       ELSE /\ news_processed' = news_processed
            /\ Proceed(FALSE)
    /\ UNCHANGED agentVars
    /\ UNCHANGED <<IMPACT_WEIGHTS, market_file, analysis_output, pc,
                   news_list, market_data, idx, rows, probe, news_raw, sched>>

\* step_nlp: read news_raw.json; nothing to do when it is empty
StepNlp ==
    /\ AtStep("NLP_Agent")
    /\ IF news_raw.ok /\ news_raw.data # <<>>
       THEN \/ /\ news_processed' = File(process(news_raw.data))
               /\ Proceed(TRUE)
            \/ /\ news_processed' = news_processed
               /\ Proceed(FALSE)
       ELSE /\ news_processed' = news_processed
            /\ Proceed(FALSE)
    /\ UNCHANGED agentVars
    /\ UNCHANGED <<IMPACT_WEIGHTS, market_file, analysis_output, pc,
                   news_list, market_data, idx, rows, probe, news_raw, sched>>

\* step_market: MarketAgent().run() saves a snapshot; it may raise before
\* the snapshot is saved, or after it while building the trend history
StepMarket ==
    /\ AtStep("Market_Agent")
    /\ \/ \E m \in MarketChoices, success \in BOOLEAN :
             /\ market_file' = File(m)
             /\ Proceed(success)
       \/ /\ market_file' = market_file
          /\ Proceed(FALSE)
    /\ UNCHANGED agentVars
    /\ UNCHANGED <<IMPACT_WEIGHTS, news_processed, analysis_output, pc,
                   news_list, market_data, idx, rows, probe, news_raw, sched>>

\* step_analysis: AnalysisAgent() constructed, run() entered
StepAnalysisCall ==
    /\ AtStep("Analysis_Agent")
    /\ ~in_step
    /\ in_step' = TRUE
    /\ pc' = "constructed"
    /\ UNCHANGED agentVars
    /\ UNCHANGED <<IMPACT_WEIGHTS, news_processed, market_file,
                   analysis_output, news_list, market_data, idx, rows, probe,
                   news_raw, sched, step, results, returned>>

\* step_analysis: run() has returned its output
StepAnalysisReturn ==
    /\ AtStep("Analysis_Agent")
    /\ in_step
    /\ pc = "done"
    /\ Proceed(TRUE)
    /\ UNCHANGED agentVars
    /\ UNCHANGED <<IMPACT_WEIGHTS, runVars, probe, news_raw, sched>>

\* step_analysis: run() raised before writing, caught by the step
StepAnalysisRaise ==
    /\ AtStep("Analysis_Agent")
    /\ in_step
    /\ pc \in {"constructed", "join"}
    /\ pc' = "failed"
    /\ Proceed(FALSE)
    /\ UNCHANGED agentVars
    /\ UNCHANGED <<IMPACT_WEIGHTS, news_processed, market_file,
                   analysis_output, news_list, market_data, idx, rows, probe,
                   news_raw, sched>>

\* run_pipeline raises outside the steps' try blocks
PipelineRaise ==
    /\ sched = "running"
    /\ returned = "none"
    /\ ~in_step
    /\ returned' = "raised"
    /\ UNCHANGED agentVars
    /\ UNCHANGED <<IMPACT_WEIGHTS, runVars, probe, news_raw, sched, step,
                   in_step, results>>

\* variant: no try/except around run_pipeline()
FinishRun_uncaught ==
    /\ sched = "running"
    /\ returned # "none"
    /\ sched' = IF returned = "raised" THEN "stopped" ELSE "sleeping"
    /\ UNCHANGED agentVars
    /\ UNCHANGED <<IMPACT_WEIGHTS, runVars, probe, news_raw, step, in_step,
                   results, returned>>

\* scheduler.main: run_pipeline() returned or its exception was caught;
\* time.sleep(600) entered
FinishRun ==
    /\ sched = "running"
    /\ returned # "none"
    /\ sched' = "sleeping"
    /\ UNCHANGED agentVars
    /\ UNCHANGED <<IMPACT_WEIGHTS, runVars, probe, news_raw, step, in_step,
                   results, returned>>

\* scheduler.main: time.sleep(600) over
Wake ==
    /\ sched = "sleeping"
    /\ sched' = "loop"
    /\ UNCHANGED agentVars
    /\ UNCHANGED <<IMPACT_WEIGHTS, runVars, probe, news_raw, step, in_step,
                   results, returned>>

NextPipeline ==
    \/ StartRun \/ StepNews \/ StepNlp \/ StepMarket
    \/ StepAnalysisCall \/ Load \/ JoinArticle \/ Aggregate
    \/ StepAnalysisReturn \/ StepAnalysisRaise
    \/ PipelineRaise \/ FinishRun \/ Wake

InitPipeline ==
    /\ IMPACT_WEIGHTS = CONFIGURED_WEIGHTS
    /\ InitIdle
    /\ probe = NoProbe

SpecPipeline == InitPipeline /\ [][NextPipeline]_vars

\* the scheduler's process keeps executing and every call terminates
SpecScheduler == SpecPipeline /\ WF_vars(NextPipeline)

----------------------------------------------------------------------------
(* Properties of the pipeline, checked under SpecPipeline *)

AllOk(s) == \A i \in DOMAIN s : s[i].ok

Reading == pc \in {"constructed", "join"}

\* C21: the steps of a run are called in the order News_Agent, NLP_Agent,
\* Market_Agent, Analysis_Agent; a step is called only after every earlier
\* step returned True; the first step that returns False (a raising agent
\* included) is the last step of the run and the run returns False; the run
\* returns True exactly when all four steps returned True.
StepsInOrder ==
    /\ Len(results) <= Len(PIPELINE_STEPS)
    /\ \A i \in DOMAIN results :
          /\ results[i].label = PIPELINE_STEPS[i]
          /\ i < Len(results) => results[i].ok
    /\ in_step => AllOk(results) /\ step = Len(results) + 1
    /\ Reading => Len(results) = 3 /\ AllOk(results)
    /\ ~AllOk(results) => returned = "False"
    /\ returned = "False" => ~AllOk(results)
    /\ returned = "True" <=>
          (Len(results) = Len(PIPELINE_STEPS) /\ AllOk(results))

\* C21 witness: a run stopped at Market_Agent after two good steps
StepsInOrderWitness ==
    /\ returned = "False"
    /\ Len(results) = 3
    /\ results[3] = [label |-> "Market_Agent", ok |-> FALSE]

\* C22: while an AnalysisAgent is reading its input files the pipeline is
\* inside step_analysis of the running invocation, and no step that changes
\* news_processed.json or market_data.json is taken.
RunsNeverOverlap ==
    /\ [](Reading => /\ sched = "running"
                     /\ returned = "none"
                     /\ in_step
                     /\ PIPELINE_STEPS[step] = "Analysis_Agent")
    /\ [][ (news_processed' # news_processed \/ market_file' # market_file)
              => ~Reading /\ pc' = pc ]_vars

\* C22 witness: the analysis of a later run reading, the output of an
\* earlier run on disk
RunsNeverOverlapWitness ==
    /\ pc = "join"
    /\ analysis_output.written
    /\ sched = "running"
    /\ in_step

RunOutcome == returned # "none"

RunBegun == sched = "running" /\ returned = "none"

\* C23: after any run, whatever its outcome (all steps good, stopped at a
\* failed step, or an exception out of run_pipeline), another run begins.
SchedulerNeverStops == RunOutcome ~> RunBegun

\* C23 witness: the scheduler asleep after a run that raised
SchedulerNeverStopsWitness ==
    /\ sched = "sleeping"
    /\ returned = "raised"

\* this run's News_Agent saved an empty article list
EmptyRawNews ==
    /\ Len(results) >= 1
    /\ results[1].ok
    /\ news_raw.ok
    /\ news_raw.data = <<>>

\* C24: in a run whose raw news is empty step_nlp returns False, neither
\* Market_Agent nor Analysis_Agent is executed, and news_processed.json,
\* market_data.json and analysis_output.json stay as they were.
EmptyNewsStopsRun ==
    /\ [](EmptyRawNews =>
             /\ ~Reading
             /\ Len(results) <= 2
             /\ Len(results) = 2 =>
                   /\ results[2] = [label |-> "NLP_Agent", ok |-> FALSE]
                   /\ returned = "False")
    /\ [][ EmptyRawNews =>
              UNCHANGED <<news_processed, market_file, analysis_output>> ]_vars

\* C24 witness: a run stopped at NLP_Agent on empty raw news, the files of
\* an earlier run on disk
EmptyNewsStopsRunWitness ==
    /\ EmptyRawNews
    /\ returned = "False"
    /\ Len(results) = 2
    /\ news_processed.ok /\ news_processed.data # <<>>
    /\ market_file.ok
    /\ analysis_output.written

----------------------------------------------------------------------------
(* The News_Agent (src/agents/news_agent.py).  Texts are sequences of      *)
(* characters.                                                             *)

\* the entries of FINANCE_KEYWORDS that can be written with the letters of
\* the texts below
FINANCE_KEYWORDS ==
    { <<"f", "e", "d">>, <<"o", "i", "l">>, <<"c", "e", "o">>,
      <<"c", "f", "o">> }

\* kw in text
Contains(text, kw) ==
    \E i \in 0..(Len(text) - Len(kw)) :
        \A j \in 1..Len(kw) : text[i + j] = kw[j]

_is_financial(title, content) ==
    LET text == lower(title \o <<" ">> \o content)
    IN  \E kw \in FINANCE_KEYWORDS : Contains(text, kw)

RSS_FEEDS == <<"reuters", "cnbc", "yahoo", "marketwatch">>

RSS_LIMIT == 30

NewsArticle(title, url, content) ==
    [title |-> title, url |-> url, timestamp |-> 0, content |-> content]

\* the loop of _fetch_newsapi over the items of the response
RECURSIVE NewsApiArticles(_)
NewsApiArticles(items) ==
    IF items = <<>> THEN <<>>
    ELSE LET item    == Head(items)
             title   == strip(item.title)
             content == strip(item.content)
             url_art == strip(item.url)
         IN  IF title = <<>> \/ url_art = <<>>
                \/ ~_is_financial(title, content)
             THEN NewsApiArticles(Tail(items))
             ELSE <<NewsArticle(title, url_art, content)>>
                  \o NewsApiArticles(Tail(items))

_fetch_newsapi ==
    IF ~NEWSAPI_KEY THEN <<>>
    ELSE IF newsapi_resp.kind # "ok" THEN <<>>
    ELSE NewsApiArticles(newsapi_resp.items)

\* variant: the exact title remembered
SeenKey_exact(title) == title

\* what _fetch_rss remembers of a title
SeenKey(title) == lower(title)

\* NewsAgent.run: NewsAPI asked; RSS is next when it gave nothing
RunNewsApi ==
    /\ n_pc = "start"
    /\ articles' = _fetch_newsapi
    /\ IF _fetch_newsapi = <<>>
       THEN /\ n_pc' = "rss"
            /\ feed_i' = 1
       ELSE /\ n_pc' = "save"
            /\ feed_i' = feed_i
    /\ seen' = {}
    /\ entry_i' = 0
    /\ UNCHANGED marketVars
    /\ UNCHANGED <<IMPACT_WEIGHTS, runVars, probe, pipeVars, NEWSAPI_KEY,
                   newsapi_resp, rss_feeds, rss_fetched>>

\* the end of one feed: "if len(articles) >= limit: break", else next feed
FeedOver(arts) ==
    IF Len(arts) >= RSS_LIMIT \/ feed_i = Len(RSS_FEEDS)
    THEN /\ n_pc' = "save"
         /\ feed_i' = feed_i
         /\ entry_i' = 0
    ELSE /\ n_pc' = "rss"
         /\ feed_i' = feed_i + 1
         /\ entry_i' = 0

\* _fetch_rss: feedparser.parse(feed_url); a failure skips the feed
RssParse ==
    /\ n_pc = "rss"
    /\ entry_i = 0
    /\ rss_fetched' = Append(rss_fetched, feed_i)
    /\ IF rss_feeds[feed_i].ok /\ rss_feeds[feed_i].entries # <<>>
       THEN /\ entry_i' = 1
            /\ UNCHANGED <<n_pc, feed_i>>
       ELSE FeedOver(articles)
    /\ UNCHANGED marketVars
    /\ UNCHANGED <<IMPACT_WEIGHTS, runVars, probe, pipeVars, NEWSAPI_KEY,
                   newsapi_resp, rss_feeds, articles, seen>>

\* _fetch_rss: one iteration of "for entry in feed.entries"
RssEntry ==
    /\ n_pc = "rss"
    /\ entry_i >= 1
    /\ LET entry   == rss_feeds[feed_i].entries[entry_i]
           title   == strip(entry.title)
           url_art == strip(entry.link)
           content == strip(entry.summary)
           dup     == SeenKey(title) \in seen
           keep    == ~dup /\ _is_financial(title, content)
           arts    == IF keep
                      THEN Append(articles, NewsArticle(title, url_art, content))
                      ELSE articles
           last    == entry_i = Len(rss_feeds[feed_i].entries)
       IN  /\ seen' = seen \cup {SeenKey(title)}
           /\ articles' = arts
           /\ IF (keep /\ Len(arts) >= RSS_LIMIT) \/ last
              THEN FeedOver(arts)
              ELSE /\ entry_i' = entry_i + 1
                   /\ UNCHANGED <<n_pc, feed_i>>
    /\ UNCHANGED marketVars
    /\ UNCHANGED <<IMPACT_WEIGHTS, runVars, probe, pipeVars, NEWSAPI_KEY,
                   newsapi_resp, rss_feeds, rss_fetched>>

\* NewsAgent.run: the articles written to news_raw.json
SaveNews ==
    /\ n_pc = "save"
    /\ news_raw' = File(articles)
    /\ n_pc' = "done"
    /\ UNCHANGED marketVars
    /\ UNCHANGED <<IMPACT_WEIGHTS, runVars, probe, schedVars, NEWSAPI_KEY,
                   newsapi_resp, rss_feeds, articles, seen, feed_i, entry_i,
                   rss_fetched>>

NextNews == RunNewsApi \/ RssParse \/ RssEntry \/ SaveNews

\* NewsAPI items
ApiItems ==
    { [title |-> <<"F", "e", "d">>, url |-> <<"u">>, content |-> <<>>],
      [title |-> <<"C", "a", "t">>, url |-> <<"u">>, content |-> <<>>],
      [title |-> <<" ", "O", "i", "l">>, url |-> <<>>, content |-> <<>>] }

ItemSeqs == UNION { [1..k -> ApiItems] : k \in 0..MaxEntries }

ApiResponses ==
    { [kind |-> "fail", items |-> <<>>],
      [kind |-> "error", items |-> <<>>] }
    \cup { [kind |-> "ok", items |-> s] : s \in ItemSeqs }

\* RSS entries
RssEntries ==
    { [title |-> <<"F", "e", "d">>, link |-> <<"u">>, summary |-> <<>>],
      [title |-> <<"F", "E", "D", " ">>, link |-> <<"v">>, summary |-> <<>>],
      [title |-> <<"C", "a", "t">>, link |-> <<"u">>, summary |-> <<>>],
      [title |-> <<"c", "a", "t">>, link |-> <<"v">>,
       summary |-> <<"o", "i", "l">>],
      [title |-> <<>>, link |-> <<"u">>, summary |-> <<"C", "E", "O">>] }

EntrySeqs == UNION { [1..k -> RssEntries] : k \in 0..MaxEntries }

Feeds ==
    { [ok |-> FALSE, entries |-> <<>>] }
    \cup { [ok |-> TRUE, entries |-> s] : s \in EntrySeqs }

NoEntries == [ok |-> TRUE, entries |-> <<>>]

Digits == <<"0", "1", "2", "3", "4", "5", "6", "7", "8", "9">>

\* the i-th of many distinct financial headlines, in lower or upper case
Headline(i, upper) ==
    [title |-> (IF upper THEN <<"O", "I", "L">> ELSE <<"o", "i", "l">>)
               \o <<Digits[(i \div 10) + 1], Digits[(i % 10) + 1]>>,
     link |-> <<"u">>, summary |-> <<>>]

\* a feed with the headlines from..to
LongFeed(from, to, upper) ==
    [ok |-> TRUE,
     entries |-> [i \in 1..(to - from + 1) |-> Headline(from + i - 1, upper)]]

\* feeds that together carry more than RSS_LIMIT financial headlines
LongFeedLists ==
    { <<LongFeed(1, RSS_LIMIT + 1, FALSE), NoEntries, NoEntries, NoEntries>>,
      <<LongFeed(1, 20, FALSE), LongFeed(11, 45, TRUE),
        LongFeed(46, 50, FALSE), NoEntries>>,
      <<NoEntries, LongFeed(1, 29, FALSE), LongFeed(25, 30, TRUE),
        LongFeed(30, 31, FALSE)>> }

NewsInputs ==
    \* NewsAPI varied, two feed lists
    { [key |-> k, api |-> r, feeds |-> f] :
        k \in BOOLEAN, r \in ApiResponses,
        f \in { <<NoEntries, NoEntries, NoEntries, NoEntries>>,
                <<[ok |-> TRUE,
                   entries |-> <<Headline(1, FALSE), Headline(1, TRUE)>>],
                  NoEntries, NoEntries, NoEntries>> } }
    \cup
    \* NewsAPI gives nothing, the first two feeds varied
    { [key |-> FALSE, api |-> [kind |-> "fail", items |-> <<>>],
       feeds |-> <<f1, f2, NoEntries,
                   [ok |-> TRUE, entries |-> <<Headline(2, FALSE)>>]>>] :
        f1 \in Feeds, f2 \in Feeds }
    \cup
    { [key |-> TRUE, api |-> [kind |-> "error", items |-> <<>>],
       feeds |-> f] : f \in LongFeedLists }

InitNews ==
    /\ IMPACT_WEIGHTS = CONFIGURED_WEIGHTS
    /\ InitRunIdle
    /\ probe = NoProbe
    /\ InitPipe
    /\ \E in \in NewsInputs :
          /\ NEWSAPI_KEY = in.key
          /\ newsapi_resp = in.api
          /\ rss_feeds = in.feeds
    /\ n_pc = "start"
    /\ articles = <<>>
    /\ seen = {}
    /\ feed_i = 0
    /\ entry_i = 0
    /\ rss_fetched = <<>>
    /\ InitMarketIdle

SpecNews == InitNews /\ [][NextNews]_vars

----------------------------------------------------------------------------
(* Properties of the News_Agent, checked under SpecNews *)

\* an item of the NewsAPI response that yields an article
Yields(item) ==
    /\ strip(item.title) # <<>>
    /\ strip(item.url) # <<>>
    /\ _is_financial(strip(item.title), strip(item.content))

NewsApiYieldsNone ==
    \/ ~NEWSAPI_KEY
    \/ newsapi_resp.kind # "ok"
    \/ \A i \in DOMAIN newsapi_resp.items : ~Yields(newsapi_resp.items[i])

NewsApiDone == n_pc \in {"rss", "save", "done"}

\* C26: the RSS feeds are requested exactly when NewsAPI yielded no article
\* (no key, failed request, status not ok, or no item passing the filter);
\* the RSS result has at most 30 articles, and no two of them have titles
\* that are equal ignoring case.
RssFallback ==
    /\ NewsApiDone /\ ~NewsApiYieldsNone => rss_fetched = <<>> /\ n_pc # "rss"
    /\ n_pc \in {"save", "done"} /\ NewsApiYieldsNone => rss_fetched # <<>>
    /\ NewsApiDone /\ NewsApiYieldsNone =>
          /\ Len(articles) <= RSS_LIMIT
          /\ \A i, j \in DOMAIN articles :
                i # j => lower(articles[i].title) # lower(articles[j].title)
    /\ n_pc = "done" => news_raw = File(articles)

\* C26 witness: RSS consulted after a NewsAPI error status; the second feed
\* repeats headlines of the first in upper case, the limit is reached inside
\* it and the third feed is never asked
RssFallbackWitness ==
    /\ n_pc = "done"
    /\ NEWSAPI_KEY
    /\ rss_fetched = <<1, 2>>
    /\ Len(articles) = RSS_LIMIT
    /\ SeenKey(rss_feeds[2].entries[1].title) = SeenKey(articles[11].title)
    /\ articles[21].title = rss_feeds[2].entries[11].title
    /\ rss_feeds[3].entries # <<>>

----------------------------------------------------------------------------
(* The Market_Agent (src/agents/market_agent.py) *)

INDEX_ONLY == {"SPY", "DJI", "QQQ"}

\* _tickers_from_news: the mentions of every article; none on any failure
_tickers_from_news ==
    IF ~news_processed.ok THEN {}
    ELSE UNION { { Get(news_processed.data[i], "companies", <<>>)[k] :
                     k \in DOMAIN Get(news_processed.data[i], "companies", <<>>) } :
                 i \in DOMAIN news_processed.data }

\* list(a set): its elements in some order
Orders(S) ==
    { s \in [1..Cardinality(S) -> S] :
        \A i, j \in DOMAIN s : i # j => s[i] # s[j] }

InList(s, x) == \E i \in DOMAIN s : s[i] = x

NotInNews(s) == s \notin news_tickers'

\* variant: only a "Note" response blocks Alpha Vantage
RateLimited_note_only(kind) == kind = "note"

\* _fetch_av: "Note" in data or "Information" in data
RateLimited(kind) == kind \in {"note", "information"}

AvEntry(symbol) ==
    [symbol |-> symbol, timestamp |-> 0] @@ Quote(10000, 10500, 2000000)

YfEntry(symbol) ==
    [symbol |-> symbol, timestamp |-> 0] @@ Quote(10000, 10400, 2000000)

\* MarketAgent(): blocked from the start without a key
MarketAgent_init ==
    /\ m_pc = "idle"
    /\ _av_blocked' = ~ALPHA_VANTAGE_API_KEY
    /\ m_pc' = "constructed"
    /\ UNCHANGED <<IMPACT_WEIGHTS, runVars, probe, pipeVars, newsVars,
                   ALPHA_VANTAGE_API_KEY, av_resp, yf_resp, news_tickers,
                   symbols, sym_i, m_data, av_calls, yf_calls>>

\* run(): the symbols to fetch, news tickers first
MarketStart ==
    /\ m_pc = "constructed"
    /\ news_tickers' = _tickers_from_news \ INDEX_ONLY
    /\ \E first \in Orders(_tickers_from_news \ INDEX_ONLY) :
          symbols' = first \o SelectSeq(MarketSymbolList, NotInNews)
    /\ m_data' = <<>>
    /\ sym_i' = 1
    /\ m_pc' = "loop"
    /\ UNCHANGED <<IMPACT_WEIGHTS, runVars, probe, pipeVars, newsVars,
                   ALPHA_VANTAGE_API_KEY, av_resp, yf_resp, _av_blocked,
                   av_calls, yf_calls>>

\* run(): one iteration of "for symbol in symbols"
FetchSymbol ==
    /\ m_pc = "loop"
    /\ sym_i <= Len(symbols)
    /\ LET symbol  == symbols[sym_i]
           ask_av  == ~_av_blocked
           from_av == ask_av /\ av_resp[symbol] = "series"
           ask_yf  == ~from_av
           from_yf == ask_yf /\ yf_resp[symbol]
           entry   == (IF from_av THEN AvEntry(symbol) ELSE YfEntry(symbol))
                      @@ [news_linked |-> symbol \in news_tickers]
       IN  /\ av_calls' = IF ask_av THEN Append(av_calls, symbol) ELSE av_calls
           /\ _av_blocked' = (_av_blocked
                              \/ (ask_av /\ RateLimited(av_resp[symbol])))
           /\ yf_calls' = IF ask_yf THEN Append(yf_calls, symbol) ELSE yf_calls
           /\ m_data' = IF from_av \/ from_yf
                        THEN [s \in DOMAIN m_data \cup {symbol} |->
                                 IF s = symbol THEN entry ELSE m_data[s]]
                        ELSE m_data
    /\ sym_i' = sym_i + 1
    /\ m_pc' = IF sym_i = Len(symbols) THEN "save" ELSE "loop"
    /\ UNCHANGED <<IMPACT_WEIGHTS, runVars, probe, pipeVars, newsVars,
                   ALPHA_VANTAGE_API_KEY, av_resp, yf_resp, news_tickers,
                   symbols>>

\* run(): the snapshot written to market_data.json
SaveMarket ==
    /\ m_pc = "save"
    /\ market_file' = File(m_data)
    /\ m_pc' = "done"
    /\ UNCHANGED <<IMPACT_WEIGHTS, news_processed, analysis_output, pc,
                   news_list, market_data, idx, rows, probe, pipeVars,
                   newsVars, ALPHA_VANTAGE_API_KEY, av_resp, yf_resp,
                   _av_blocked, news_tickers, symbols, sym_i, m_data,
                   av_calls, yf_calls>>

NextMarket == MarketAgent_init \/ MarketStart \/ FetchSymbol \/ SaveMarket

\* every symbol a run may fetch, in a fixed order
FetchOrder == MarketSymbolList \o <<"IBM">>

FetchIdx(sym) == CHOOSE i \in DOMAIN FetchOrder : FetchOrder[i] = sym

FetchSet == { FetchOrder[i] : i \in DOMAIN FetchOrder }

AvKinds == <<"series", "no_series", "error">>

\* Alpha Vantage answers: the symbol at position b is rate-limited with
\* the given kind (none when b = 0), the others get the kinds in rotation
AvResponses ==
    { [s \in FetchSet |->
          IF FetchIdx(s) = b THEN kind
          ELSE AvKinds[((FetchIdx(s) + r) % Len(AvKinds)) + 1]] :
      b \in 0..Len(FetchOrder), kind \in {"note", "information"},
      r \in 0..(Len(AvKinds) - 1) }

YfResponses ==
    { [s \in FetchSet |-> TRUE], [s \in FetchSet |-> FALSE],
      [s \in FetchSet |-> FetchIdx(s) % 2 = 0] }

MarketNews ==
    { NoFile,
      File(<<[companies |-> <<"XOM", "SPY">>]>>),
      File(<<[companies |-> <<"TSLA">>], [title |-> "headline"],
             [companies |-> <<"IBM", "TSLA">>]>>) }

InitMarket ==
    /\ IMPACT_WEIGHTS = CONFIGURED_WEIGHTS
    /\ news_processed \in MarketNews
    /\ market_file = NoFile
    /\ analysis_output = NoOutput
    /\ pc = "idle"
    /\ news_list = <<>>
    /\ market_data = <<>>
    /\ idx = 0
    /\ rows = <<>>
    /\ probe = NoProbe
    /\ InitPipe
    /\ InitNewsIdle
    /\ ALPHA_VANTAGE_API_KEY \in BOOLEAN
    /\ av_resp \in AvResponses
    /\ yf_resp \in YfResponses
    /\ m_pc = "idle"
    /\ _av_blocked = FALSE
    /\ news_tickers = {}
    /\ symbols = <<>>
    /\ sym_i = 0
    /\ m_data = <<>>
    /\ av_calls = <<>>
    /\ yf_calls = <<>>

SpecMarket == InitMarket /\ [][NextMarket]_vars

----------------------------------------------------------------------------
(* Properties of the Market_Agent, checked under SpecMarket *)

Limited(sym) == av_resp[sym] \in {"note", "information"}

\* the symbols the loop has dealt with
Fetched == { symbols[i] : i \in 1..(sym_i - 1) }

GotFromAv(sym) == InList(av_calls, sym) /\ av_resp[sym] = "series"

\* C25: in one run the blocked flag is set exactly from the moment there is
\* no key or some request was answered with a rate limit, and stays set; no
\* request goes to Alpha Vantage after a rate-limited one; every symbol
\* without an Alpha Vantage entry is asked from yfinance; a symbol is in
\* market_data exactly when one of the two sources gave an entry for it.
AvBlockedForGood ==
    m_pc \in {"loop", "save", "done"} =>
        /\ _av_blocked <=>
              \/ ~ALPHA_VANTAGE_API_KEY
              \/ \E i \in DOMAIN av_calls : Limited(av_calls[i])
        /\ ~ALPHA_VANTAGE_API_KEY => av_calls = <<>>
        /\ \A i \in DOMAIN av_calls :
              Limited(av_calls[i]) => i = Len(av_calls)
        /\ \A sym \in Fetched :
              /\ InList(yf_calls, sym) <=> ~GotFromAv(sym)
              /\ sym \in DOMAIN m_data <=>
                    \/ GotFromAv(sym)
                    \/ (InList(yf_calls, sym) /\ yf_resp[sym])
        /\ DOMAIN m_data \subseteq Fetched
        /\ m_pc = "done" => market_file = File(m_data)

\* C25 witness: the third request answered "Information"; symbols stored
\* from Alpha Vantage, from yfinance, and symbols without data
AvBlockedForGoodWitness ==
    /\ m_pc = "done"
    /\ ALPHA_VANTAGE_API_KEY
    /\ Len(av_calls) = 3
    /\ av_resp[av_calls[3]] = "information"
    /\ \E sym \in DOMAIN m_data : GotFromAv(sym)
    /\ \E sym \in DOMAIN m_data : ~GotFromAv(sym)
    /\ \E sym \in Fetched : sym \notin DOMAIN m_data
    /\ \E i \in DOMAIN symbols :
          i > 3 /\ av_resp[symbols[i]] = "series"
                /\ InList(yf_calls, symbols[i])

====
